---- MODULE Spec2Model ----
(***************************************************************************)
(* Model of the ByteDent RAG chatbot pipeline (app/chatbot.py): the        *)
(* response cache, retrieval filter, answerability gate, JSON parsing and  *)
(* response validation, composed by ByteDentChatbot.chat; the token-aware  *)
(* chunker; and the chat endpoint of app/main.py with its metrics.         *)
(*                                                                         *)
(* Several specifications share the variables: Spec (chat called request   *)
(* by request on the global cache), CacheSpec (ResponseCache.get and set   *)
(* called directly), ChunkSpec (the loop of chunk_text; ChunkLiveSpec is   *)
(* the same loop left to run), ServeSpec (requests arriving together at    *)
(* the endpoint), GateSpec (one retrieval and the gate on it) and BotSpec  *)
(* (the singleton from construction on).  Each leaves the variables of     *)
(* the others at their initial values.                                     *)
(*                                                                         *)
(* Text is modelled by TLA+ strings, on which Len, SubSeq and \o act       *)
(* character by character.  Similarity scores are integers in hundredths   *)
(* (0.30 is 30).  The clock time.time() is the variable now, in ticks.     *)
(* hashlib.md5 is taken as collision-free: a cache key is the normalized   *)
(* query itself.                                                           *)
(***************************************************************************)
EXTENDS Integers, Sequences, FiniteSets, TLC

VARIABLES cache, hits, misses, now, last, inserted, calls,
          chunker, tokens, chunk_start, chunk_id, chunk_list,
          requests, loop, metrics,
          lookup, bot, probe

\* the locals of TokenAwareChunker.chunk_text, and the chunker itself
chunkVars == <<chunker, tokens, chunk_start, chunk_id, chunk_list>>

\* the requests at the chat endpoint, the event loop and the Metrics object
serveVars == <<requests, loop, metrics>>

\* one retrieval, from the answer of the index to the decision of the gate
gateVars == <<lookup>>

\* the ByteDentChatbot class with its singleton, and the latest call made
\* on it from outside
botVars == <<bot, probe>>

vars == <<cache, hits, misses, now, last, inserted, calls, chunkVars, serveVars,
          gateVars, botVars>>

----------------------------------------------------------------------------
(* Bounds of the model *)

MaxSize == 1
TTL == 1
MaxTime == 1
MaxRequests == 2
CacheCapacity == 2
MaxCalls == 3
MaxChunkSize == 3
MaxTokens == 4
MaxClients == 2
MaxTopK == 2
MaxIndexed == 3
MaxInitFailures == 1

----------------------------------------------------------------------------
(* Settings (app/config.py), scores in hundredths *)

min_similarity_threshold == 25
handoff_similarity_threshold == 30

uncertainty_keywords ==
    << "i'm not sure", "i don't know", "unclear", "not enough information",
       "cannot determine", "insufficient context", "i apologize",
       "consult your dentist", "seek professional advice", "cannot diagnose" >>

handoff_required_topics ==
    << "pricing", "price", "cost", "quote", "subscription",
       "my scan", "my image", "my diagnosis", "my treatment",
       "specific patient", "patient name", "medical advice",
       "prescription", "medication", "legal", "malpractice",
       "insurance claim", "billing", "refund" >>

patient_patterns ==
    << "my scan", "my x-ray", "my cbct", "my panoramic",
       "my diagnosis", "my treatment", "my tooth", "my teeth",
       "diagnose me", "analyze my", "look at my",
       "what should i do", "should i get", "do i need" >>

----------------------------------------------------------------------------
(* The questions put to chat *)

Questions ==
    { "What is CBCT?", "  what is cbct? ", "CBCT",
      "Cost?", " COST? ", "Do I need it", "My scan" }

----------------------------------------------------------------------------
(* Python str operations *)

UpperLetters == "ABCDEFGHIJKLMNOPQRSTUVWXYZ"
LowerLetters == "abcdefghijklmnopqrstuvwxyz"
Whitespace == {" ", "\t", "\n", "\r"}

CharAt(s, i) == SubSeq(s, i, i)

LowerChar(c) ==
    IF \E i \in 1..Len(UpperLetters) : CharAt(UpperLetters, i) = c
    THEN CharAt(LowerLetters,
                CHOOSE i \in 1..Len(UpperLetters) : CharAt(UpperLetters, i) = c)
    ELSE c

RECURSIVE Lower(_)
Lower(s) ==
    IF Len(s) = 0 THEN ""
    ELSE LowerChar(CharAt(s, 1)) \o Lower(SubSeq(s, 2, Len(s)))

RECURSIVE LStrip(_)
LStrip(s) ==
    IF Len(s) > 0 /\ CharAt(s, 1) \in Whitespace
    THEN LStrip(SubSeq(s, 2, Len(s)))
    ELSE s

RECURSIVE RStrip(_)
RStrip(s) ==
    IF Len(s) > 0 /\ CharAt(s, Len(s)) \in Whitespace
    THEN RStrip(SubSeq(s, 1, Len(s) - 1))
    ELSE s

Strip(s) == RStrip(LStrip(s))

\* a function written out as a table of its values, computed once
Table(f) == f @@ <<>>

\* needle in hay
Contains(needle, hay) ==
    \E i \in 1..(Len(hay) - Len(needle) + 1) :
        SubSeq(hay, i, i + Len(needle) - 1) = needle

----------------------------------------------------------------------------
(* JSON values as Python sees them after json.loads.  kind is one of       *)
(* "str", "list", "num", "null" (None), and "absent" for a key that the    *)
(* dict does not hold.  A list holds strings.                              *)

JStr(s) == [kind |-> "str", s |-> s, l |-> <<>>, n |-> 0]
JList(l) == [kind |-> "list", s |-> "", l |-> l, n |-> 0]
JNum(n) == [kind |-> "num", s |-> "", l |-> <<>>, n |-> n]
JNull == [kind |-> "null", s |-> "", l |-> <<>>, n |-> 0]
JAbsent == [kind |-> "absent", s |-> "", l |-> <<>>, n |-> 0]

\* Python truth value of a JSON value: None, "", [] and 0 are falsy
Truthy(v) ==
    CASE v.kind = "str" -> Len(v.s) > 0
      [] v.kind = "list" -> Len(v.l) > 0
      [] v.kind = "num" -> v.n # 0
      [] OTHER -> FALSE

\* dict.get(key, default)
DictGet(d, key, default) == IF d[key].kind = "absent" THEN default ELSE d[key]

Dict(t, m, c, h) == [type |-> t, message |-> m, citations |-> c, handoff_reason |-> h]

----------------------------------------------------------------------------
(* Model output.  The raw text is a sequence of tokens: "{", "}", the      *)
(* fences "fence_json" and "fence" (three backquotes, with and without    *)
(* the word json), "ws" (whitespace), "text" (any run of                   *)
(* characters without brace or fence) and the names of JSON object bodies  *)
(* (the key/value text between the braces of an object).                   *)

Bodies ==
    [ ans       |-> Dict(JStr("answer"), JStr("CBCT is a 3D scan"), JList(<<"CBCT is 3D">>), JAbsent),
      ansBlank  |-> Dict(JStr("answer"), JStr("CBCT is a 3D scan"), JList(<<"">>), JAbsent),
      ansUnsure |-> Dict(JStr("answer"), JStr("I'm Not Sure about CBCT"), JList(<<"CBCT is 3D">>), JAbsent),
      ansNoCit  |-> Dict(JStr("answer"), JStr("CBCT is a 3D scan"), JList(<<>>), JAbsent),
      ansCitGone |-> Dict(JStr("answer"), JStr("CBCT is a 3D scan"), JAbsent, JAbsent),
      ansMsgNull |-> Dict(JStr("answer"), JNull, JList(<<"CBCT is 3D">>), JAbsent),
      ansMsgNullNoCit |-> Dict(JStr("answer"), JNull, JList(<<>>), JAbsent),
      hand      |-> Dict(JStr("handoff"), JStr("Let me connect you"), JList(<<>>), JStr("Context is insufficient")),
      handCit   |-> Dict(JStr("handoff"), JStr("Let me connect you"), JList(<<"CBCT is 3D">>), JAbsent),
      other     |-> Dict(JStr("maybe"), JNum(1), JList(<<"CBCT is 3D">>), JNull) ]

BodyNames == DOMAIN Bodies

EmptyDict == Dict(JAbsent, JAbsent, JAbsent, JAbsent)

RawOutputs ==
    { <<"{", b, "}">> : b \in BodyNames }
    \cup { <<"text">>,
           <<"}", "text", "{">>,
           <<"{", "text", "}">>,
           <<"{", "}">>,
           <<"text", "{", "ans", "}", "text">>,
           <<"fence_json", "ws", "{", "hand", "}", "ws", "fence">> }

\* the model call throws instead of answering
ModelThrows == <<"raise">>

ModelOutcomes == RawOutputs \cup {ModelThrows}

\* the message texts of the bodies, and the default ""
MessageTexts == {Bodies[b].message.s : b \in BodyNames} \cup {""}

----------------------------------------------------------------------------
(* ByteDentChatbot._parse_json_response on token sequences.  Positions are *)
(* token indices from 1; 0 stands for Python's -1 (not found).             *)

\* text.find(tok, start): first position >= start holding a token of toks
Find(text, toks, start) ==
    IF \E i \in start..Len(text) : text[i] \in toks
    THEN CHOOSE i \in start..Len(text) :
            text[i] \in toks /\ \A j \in start..(i - 1) : text[j] \notin toks
    ELSE 0

\* text.rfind(tok): last position holding a token of toks
RFind(text, toks) ==
    IF \E i \in 1..Len(text) : text[i] \in toks
    THEN CHOOSE i \in 1..Len(text) :
            text[i] \in toks /\ \A j \in (i + 1)..Len(text) : text[j] \notin toks
    ELSE 0

RECURSIVE StripWs(_)
StripWs(text) ==
    IF Len(text) > 0 /\ text[1] = "ws" THEN StripWs(Tail(text))
    ELSE IF Len(text) > 0 /\ text[Len(text)] = "ws"
         THEN StripWs(SubSeq(text, 1, Len(text) - 1))
         ELSE text

\* text[:-1]: the last character is cut off.  "{" and "}" are one character;
\* a longer token that loses a character is left as text (a body or fence
\* is broken by it), whitespace and text stay what they are.
DropLastChar(text) ==
    IF Len(text) = 0 THEN text
    ELSE LET t == text[Len(text)]
             front == SubSeq(text, 1, Len(text) - 1)
         IN  IF t \in {"{", "}"} THEN front
             ELSE IF t = "ws" THEN text
             ELSE Append(front, "text")

\* json.loads of a text that starts with "{" and ends with "}"
JsonLoads(text) ==
    LET t == SelectSeq(text, LAMBDA x : x # "ws")
    IN  IF t = <<"{", "}">>
        THEN [ok |-> TRUE, error |-> "", value |-> EmptyDict]
        ELSE IF Len(t) = 3 /\ t[1] = "{" /\ t[3] = "}" /\ t[2] \in BodyNames
        THEN [ok |-> TRUE, error |-> "", value |-> Bodies[t[2]]]
        ELSE [ok |-> FALSE, error |-> "JSONDecodeError", value |-> EmptyDict]

Fenced(text) ==
    IF \E i \in 1..Len(text) : text[i] = "fence_json"
    THEN LET json_start == Find(text, {"fence_json"}, 1) + 1
             json_end == Find(text, {"fence", "fence_json"}, json_start)
         IN  IF json_end = 0
             THEN StripWs(DropLastChar(SubSeq(text, json_start, Len(text))))
             ELSE StripWs(SubSeq(text, json_start, json_end - 1))
    ELSE IF \E i \in 1..Len(text) : text[i] = "fence"
    THEN LET json_start == Find(text, {"{"}, 1)
             json_end == RFind(text, {"}"})
         IN  IF json_start # 0 /\ json_end >= json_start
             THEN SubSeq(text, json_start, json_end)
             ELSE text
    ELSE text

\* _parse_json_response returning an empty dict where json.loads fails
ParseLenient(raw) ==
    LET text == Fenced(raw)
        json_start == Find(text, {"{"}, 1)
        json_end == RFind(text, {"}"})
    IN  IF json_start = 0 \/ json_end < json_start
        THEN [ok |-> FALSE, error |-> "ValueError", value |-> EmptyDict]
        ELSE [ok |-> TRUE, error |-> "",
              value |-> JsonLoads(SubSeq(text, json_start, json_end)).value]

_parse_json_response(raw) ==
    LET text == Fenced(raw)
        json_start == Find(text, {"{"}, 1)
        json_end == RFind(text, {"}"})
    IN  IF json_start = 0 \/ json_end < json_start
        THEN [ok |-> FALSE, error |-> "ValueError", value |-> EmptyDict]
        ELSE JsonLoads(SubSeq(text, json_start, json_end))

\* _check_uncertainty matching the message as written, not lowercased
CheckUncertaintyCaseSensitive(response_text) ==
    \E i \in 1..Len(uncertainty_keywords) :
        Contains(uncertainty_keywords[i], response_text)

\* ByteDentChatbot._check_uncertainty, for a message that is a str
_check_uncertainty(response_text) ==
    LET text_lower == Lower(response_text)
    IN  \E i \in 1..Len(uncertainty_keywords) :
            Contains(uncertainty_keywords[i], text_lower)

\* the two functions above, tabulated over the model's outputs
ParsedOf == Table([raw \in RawOutputs |-> _parse_json_response(raw)])
UncertainOf == Table([m \in MessageTexts |-> _check_uncertainty(m)])

----------------------------------------------------------------------------
(* Retrieval.  VectorStore.search is the embedding model and the FAISS     *)
(* index: its answer is an input, the scores of the hits in descending     *)
(* order.                                                                  *)

Hit(c, sc) == [chunk |-> c, score |-> sc]

SearchResults == { <<>>, <<20>>, <<25, 20>>, <<30, 25, 20>>, <<90, 30>> }

\* the hits of a score list: hit i is chunk i - 1 of the index
Hits(r) == [i \in 1..Len(r) |-> Hit(i - 1, r[i])]

RECURSIVE SeqMax(_)
SeqMax(q) ==
    IF Len(q) = 1 THEN q[1]
    ELSE LET m == SeqMax(Tail(q)) IN IF q[1] >= m THEN q[1] ELSE m

RetrievalResult(chunks, scores, max_score, passed_threshold) ==
    [chunks |-> chunks, scores |-> scores, max_score |-> max_score,
     passed_threshold |-> passed_threshold, retrieval_time_ms |-> 0]

\* retrieve_context dropping a score that equals the threshold
RetrieveContextAboveThreshold(results) ==
    IF Len(results) = 0
    THEN RetrievalResult(<<>>, <<>>, 0, FALSE)
    ELSE LET filtered_results ==
                 SelectSeq(results, LAMBDA h : h.score > min_similarity_threshold)
             chunks == [i \in 1..Len(filtered_results) |-> filtered_results[i].chunk]
             scores == [i \in 1..Len(filtered_results) |-> filtered_results[i].score]
             max_score == IF Len(scores) > 0 THEN SeqMax(scores) ELSE 0
         IN  RetrievalResult(chunks, scores, max_score, Len(chunks) > 0)

\* ByteDentChatbot.retrieve_context, given what the search returned
retrieve_context(results) ==
    IF Len(results) = 0
    THEN RetrievalResult(<<>>, <<>>, 0, FALSE)
    ELSE LET filtered_results ==
                 SelectSeq(results, LAMBDA h : h.score >= min_similarity_threshold)
             chunks == [i \in 1..Len(filtered_results) |-> filtered_results[i].chunk]
             scores == [i \in 1..Len(filtered_results) |-> filtered_results[i].score]
             max_score == IF Len(scores) > 0 THEN SeqMax(scores) ELSE 0
         IN  RetrievalResult(chunks, scores, max_score, Len(chunks) > 0)

----------------------------------------------------------------------------
(* Answerability gate *)

DigitChars == "0123456789"
Digit(d) == CharAt(DigitChars, d + 1)

\* f"{score:.3f}" of a score in hundredths, 0 <= score <= 100
Fixed3(score) ==
    Digit(score \div 100) \o "." \o Digit((score \div 10) % 10)
        \o Digit(score % 10) \o "0"

NoInformationReason == "No relevant information found in knowledge base"
LowSimilarityReason(max_score) == "Low similarity score (" \o Fixed3(max_score) \o ")"
TopicReason(topic) == "Query requires live support: contains '" \o topic \o "'"
PatientSpecificReason == "Query appears to be patient-specific"
AnswerableReason == "Query is answerable from knowledge base"

GateDecision(should_handoff, reason) ==
    [should_handoff |-> should_handoff, reason |-> reason]

\* position of the first entry of words that occurs in text, 0 if none does
FirstIn(words, text) ==
    IF \E i \in 1..Len(words) : Contains(words[i], text)
    THEN CHOOSE i \in 1..Len(words) :
            Contains(words[i], text)
            /\ \A j \in 1..(i - 1) : ~Contains(words[j], text)
    ELSE 0

\* the gate with the topic check put before the similarity check
GateTopicFirst(query, retrieval_result) ==
    LET query_lower == Lower(query)
        topic == FirstIn(handoff_required_topics, query_lower)
        pattern == FirstIn(patient_patterns, query_lower)
    IN  IF Len(retrieval_result.chunks) = 0
        THEN GateDecision(TRUE, NoInformationReason)
        ELSE IF topic # 0
        THEN GateDecision(TRUE, TopicReason(handoff_required_topics[topic]))
        ELSE IF retrieval_result.max_score < handoff_similarity_threshold
        THEN GateDecision(TRUE, LowSimilarityReason(retrieval_result.max_score))
        ELSE IF pattern # 0
        THEN GateDecision(TRUE, PatientSpecificReason)
        ELSE GateDecision(FALSE, AnswerableReason)

\* the gate with <= in the similarity check
GateThresholdInclusive(query, retrieval_result) ==
    LET query_lower == Lower(query)
        topic == FirstIn(handoff_required_topics, query_lower)
        pattern == FirstIn(patient_patterns, query_lower)
    IN  IF Len(retrieval_result.chunks) = 0
        THEN GateDecision(TRUE, NoInformationReason)
        ELSE IF retrieval_result.max_score <= handoff_similarity_threshold
        THEN GateDecision(TRUE, LowSimilarityReason(retrieval_result.max_score))
        ELSE IF topic # 0
        THEN GateDecision(TRUE, TopicReason(handoff_required_topics[topic]))
        ELSE IF pattern # 0
        THEN GateDecision(TRUE, PatientSpecificReason)
        ELSE GateDecision(FALSE, AnswerableReason)

\* the gate matching the query as typed, not lowercased
GateCaseSensitive(query, retrieval_result) ==
    LET query_lower == query
        topic == FirstIn(handoff_required_topics, query_lower)
        pattern == FirstIn(patient_patterns, query_lower)
    IN  IF Len(retrieval_result.chunks) = 0
        THEN GateDecision(TRUE, NoInformationReason)
        ELSE IF retrieval_result.max_score < handoff_similarity_threshold
        THEN GateDecision(TRUE, LowSimilarityReason(retrieval_result.max_score))
        ELSE IF topic # 0
        THEN GateDecision(TRUE, TopicReason(handoff_required_topics[topic]))
        ELSE IF pattern # 0
        THEN GateDecision(TRUE, PatientSpecificReason)
        ELSE GateDecision(FALSE, AnswerableReason)

\* the gate with the patient-specific check put before the topic check
GatePatientFirst(query, retrieval_result) ==
    LET query_lower == Lower(query)
        topic == FirstIn(handoff_required_topics, query_lower)
        pattern == FirstIn(patient_patterns, query_lower)
    IN  IF Len(retrieval_result.chunks) = 0
        THEN GateDecision(TRUE, NoInformationReason)
        ELSE IF retrieval_result.max_score < handoff_similarity_threshold
        THEN GateDecision(TRUE, LowSimilarityReason(retrieval_result.max_score))
        ELSE IF pattern # 0
        THEN GateDecision(TRUE, PatientSpecificReason)
        ELSE IF topic # 0
        THEN GateDecision(TRUE, TopicReason(handoff_required_topics[topic]))
        ELSE GateDecision(FALSE, AnswerableReason)

\* the gate without its fourth check
GateWithoutPatientCheck(query, retrieval_result) ==
    LET query_lower == Lower(query)
        topic == FirstIn(handoff_required_topics, query_lower)
    IN  IF Len(retrieval_result.chunks) = 0
        THEN GateDecision(TRUE, NoInformationReason)
        ELSE IF retrieval_result.max_score < handoff_similarity_threshold
        THEN GateDecision(TRUE, LowSimilarityReason(retrieval_result.max_score))
        ELSE IF topic # 0
        THEN GateDecision(TRUE, TopicReason(handoff_required_topics[topic]))
        ELSE GateDecision(FALSE, AnswerableReason)

answerability_gate(query, retrieval_result) ==
    LET query_lower == Lower(query)
        topic == FirstIn(handoff_required_topics, query_lower)
        pattern == FirstIn(patient_patterns, query_lower)
    IN  IF Len(retrieval_result.chunks) = 0
        THEN GateDecision(TRUE, NoInformationReason)
        ELSE IF retrieval_result.max_score < handoff_similarity_threshold
        THEN GateDecision(TRUE, LowSimilarityReason(retrieval_result.max_score))
        ELSE IF topic # 0
        THEN GateDecision(TRUE, TopicReason(handoff_required_topics[topic]))
        ELSE IF pattern # 0
        THEN GateDecision(TRUE, PatientSpecificReason)
        ELSE GateDecision(FALSE, AnswerableReason)

\* retrieval and gate, tabulated over the questions and search results
RetrievalOf == Table([r \in SearchResults |-> retrieve_context(Hits(r))])
GateOf ==
    Table([q \in Questions |->
        Table([r \in SearchResults |-> answerability_gate(q, RetrievalOf[r])])])

----------------------------------------------------------------------------
(* ResponseCache: the dict, in insertion order, as a sequence of entries   *)

Entry(key, result, timestamp) ==
    [key |-> key, result |-> result, timestamp |-> timestamp]

\* _hash_query without the lowercasing
HashQueryCaseSensitive(query) == Strip(query)

_hash_query(query) == Strip(Lower(query))

\* the keys of the questions, tabulated
KeyOf == Table([q \in Questions |-> _hash_query(q)])

Keys(c) == {c[i].key : i \in 1..Len(c)}
IndexOf(c, key) == CHOOSE i \in 1..Len(c) : c[i].key = key
Remove(c, i) == SubSeq(c, 1, i - 1) \o SubSeq(c, i + 1, Len(c))

\* ResponseCache.get with the expiry comparison turned round
CacheGetExpiryReversed(c, query, t) ==
    LET key == KeyOf[query]
    IN  IF key \in Keys(c)
        THEN LET i == IndexOf(c, key)
             IN  IF t - c[i].timestamp >= TTL
                 THEN [hit |-> TRUE, at |-> i, cache |-> c]
                 ELSE [hit |-> FALSE, at |-> 0, cache |-> Remove(c, i)]
        ELSE [hit |-> FALSE, at |-> 0, cache |-> c]

\* ResponseCache.get taking an entry whose age equals the TTL as live
CacheGetLiveAtTtl(c, query, t) ==
    LET key == KeyOf[query]
    IN  IF key \in Keys(c)
        THEN LET i == IndexOf(c, key)
             IN  IF t - c[i].timestamp <= TTL
                 THEN [hit |-> TRUE, at |-> i, cache |-> c]
                 ELSE [hit |-> FALSE, at |-> 0, cache |-> Remove(c, i)]
        ELSE [hit |-> FALSE, at |-> 0, cache |-> c]

\* ResponseCache.get: the cache after the call, and whether it was a hit
CacheGet(c, query, t) ==
    LET key == KeyOf[query]
    IN  IF key \in Keys(c)
        THEN LET i == IndexOf(c, key)
             IN  IF t - c[i].timestamp < TTL
                 THEN [hit |-> TRUE, at |-> i, cache |-> c]
                 ELSE [hit |-> FALSE, at |-> 0, cache |-> Remove(c, i)]
        ELSE [hit |-> FALSE, at |-> 0, cache |-> c]

\* the first entry with the greatest timestamp, as max would pick it
Youngest(c) ==
    CHOOSE i \in 1..Len(c) :
        /\ \A j \in 1..Len(c) : c[i].timestamp >= c[j].timestamp
        /\ \A j \in 1..(i - 1) : c[j].timestamp < c[i].timestamp

\* min(self.cache, key=timestamp): the first entry with the least timestamp
Oldest(c) ==
    CHOOSE i \in 1..Len(c) :
        /\ \A j \in 1..Len(c) : c[i].timestamp <= c[j].timestamp
        /\ \A j \in 1..(i - 1) : c[j].timestamp > c[i].timestamp

\* ResponseCache.set evicting only when the cache is over capacity
ResponseCacheSetOverCapacity(max_size, c, query, result, t) ==
    LET c1 == IF Len(c) > max_size THEN Remove(c, Oldest(c)) ELSE c
        key == KeyOf[query]
    IN  IF key \in Keys(c1)
        THEN [c1 EXCEPT ![IndexOf(c1, key)] = Entry(key, result, t)]
        ELSE Append(c1, Entry(key, result, t))

\* ResponseCache.set on a cache constructed with max_size
ResponseCacheSet(max_size, c, query, result, t) ==
    LET c1 == IF Len(c) >= max_size THEN Remove(c, Oldest(c)) ELSE c
        key == KeyOf[query]
    IN  IF key \in Keys(c1)
        THEN [c1 EXCEPT ![IndexOf(c1, key)] = Entry(key, result, t)]
        ELSE Append(c1, Entry(key, result, t))

\* _response_cache.set: the global cache, of capacity MaxSize
CacheSet(c, query, result, t) == ResponseCacheSet(MaxSize, c, query, result, t)

----------------------------------------------------------------------------
(* ByteDentChatbot.chat *)

\* request_id argument; "" stands for None
RequestIds == {"", "r1"}

ChatResult(type, message, citations, handoff_reason, retrieval_result, gate_decision, generation_time_ms, total_time_ms, request_id) ==
    [type |-> type, message |-> message, citations |-> citations,
     handoff_reason |-> handoff_reason, retrieval_result |-> retrieval_result,
     gate_decision |-> gate_decision, generation_time_ms |-> generation_time_ms,
     total_time_ms |-> total_time_ms, request_id |-> request_id]

GateHandoffMessage ==
    "I need to connect you with a support specialist who can better assist you with this request."
ParseHandoffMessage ==
    "I'm having trouble processing your request. Let me connect you with support."
UncertainHandoffMessage ==
    "I'm not completely certain about this answer. Let me connect you with support."
NoCitationsHandoffMessage ==
    "I need to verify this information. Let me connect you with support."

ParseFailedReason == "Failed to parse model response"
UncertaintyReason == "Model expressed uncertainty"
NoCitationsReason == "Answer provided without citations"

Handoff(message, reason, retrieval_result, gate_decision, generation_time, total_time, request_id) ==
    ChatResult(JStr("handoff"), JStr(message), JList(<<>>), JStr(reason),
               retrieval_result, gate_decision, generation_time, total_time,
               request_id)

NoResult ==
    ChatResult(JAbsent, JAbsent, JAbsent, JAbsent,
               RetrievalResult(<<>>, <<>>, 0, FALSE), GateDecision(FALSE, ""),
               0, 0, "")

\* str(uuid.uuid4()): a fresh identifier, here numbered by the request
Uuid4(n) == "uuid4-" \o Digit(n)

\* what a call of chat does: how it ends and the cache it leaves
Run(outcome, exception, result, c, hit, searched, generated, stored) ==
    [outcome |-> outcome, exception |-> exception, result |-> result,
     cache |-> c, hit |-> hit, search_calls |-> IF searched THEN 1 ELSE 0,
     generate_calls |-> IF generated THEN 1 ELSE 0, stored |-> stored]

\* Steps 6 and 7 of chat, caching whatever is returned at step 7
ValidateCachingAll(question, request_id, parsed, retrieval_result, gate_decision, c, t) ==
    LET response_type == DictGet(parsed, "type", JStr("handoff"))
        message == DictGet(parsed, "message", JStr(""))
        citations == DictGet(parsed, "citations", JList(<<>>))
        is_answer == response_type = JStr("answer")
        result == ChatResult(response_type, message, citations,
                             DictGet(parsed, "handoff_reason", JNull),
                             retrieval_result, gate_decision, 0, 0, request_id)
    IN  IF is_answer /\ message.kind # "str"
        THEN Run("raised", "AttributeError", NoResult, c, FALSE, TRUE, TRUE, FALSE)
        ELSE IF is_answer /\ UncertainOf[message.s]
        THEN Run("returned", "",
                 Handoff(UncertainHandoffMessage, UncertaintyReason, retrieval_result,
                         gate_decision, 0, 0, request_id),
                 c, FALSE, TRUE, TRUE, FALSE)
        ELSE IF is_answer /\ ~Truthy(citations)
        THEN Run("returned", "",
                 Handoff(NoCitationsHandoffMessage, NoCitationsReason, retrieval_result,
                         gate_decision, 0, 0, request_id),
                 c, FALSE, TRUE, TRUE, FALSE)
        ELSE Run("returned", "", result, CacheSet(c, question, result, t),
                 FALSE, TRUE, TRUE, TRUE)

\* Steps 6 and 7 of chat: validation of the parsed dict, and caching
Validate(question, request_id, parsed, retrieval_result, gate_decision, c, t) ==
    LET response_type == DictGet(parsed, "type", JStr("handoff"))
        message == DictGet(parsed, "message", JStr(""))
        citations == DictGet(parsed, "citations", JList(<<>>))
        is_answer == response_type = JStr("answer")
        result == ChatResult(response_type, message, citations,
                             DictGet(parsed, "handoff_reason", JNull),
                             retrieval_result, gate_decision, 0, 0, request_id)
    IN  IF is_answer /\ message.kind # "str"
        THEN Run("raised", "AttributeError", NoResult, c, FALSE, TRUE, TRUE, FALSE)
        ELSE IF is_answer /\ UncertainOf[message.s]
        THEN Run("returned", "",
                 Handoff(UncertainHandoffMessage, UncertaintyReason, retrieval_result,
                         gate_decision, 0, 0, request_id),
                 c, FALSE, TRUE, TRUE, FALSE)
        ELSE IF is_answer /\ ~Truthy(citations)
        THEN Run("returned", "",
                 Handoff(NoCitationsHandoffMessage, NoCitationsReason, retrieval_result,
                         gate_decision, 0, 0, request_id),
                 c, FALSE, TRUE, TRUE, FALSE)
        ELSE IF is_answer
        THEN Run("returned", "", result, CacheSet(c, question, result, t),
                 FALSE, TRUE, TRUE, TRUE)
        ELSE Run("returned", "", result, c, FALSE, TRUE, TRUE, FALSE)

\* chat(question, request_id) on cache c at time t, where the vector search
\* answers results and the model call ends as generated (it throws, or it
\* returns a raw text); n is the number of requests before this one.  A
\* call takes no time at the resolution of the clock.
chat(question, request_id_arg, results, generated, c, t, n) ==
    LET request_id == IF request_id_arg = "" THEN Uuid4(n) ELSE request_id_arg
        got == CacheGet(c, question, t)
        retrieval_result == RetrievalOf[results]
        gate_decision == GateOf[question][results]
    IN  IF got.hit
        THEN LET cached == [c[got.at].result EXCEPT !.request_id = request_id,
                                                    !.total_time_ms = 0]
             IN  Run("returned", "", cached,
                     [c EXCEPT ![got.at].result = cached],
                     TRUE, FALSE, FALSE, FALSE)
        ELSE IF gate_decision.should_handoff
        THEN Run("returned", "",
                 Handoff(GateHandoffMessage, gate_decision.reason, retrieval_result,
                         gate_decision, 0, 0, request_id),
                 got.cache, FALSE, TRUE, FALSE, FALSE)
        ELSE IF generated = ModelThrows
        THEN Run("raised", "ModelError", NoResult, got.cache, FALSE, TRUE, TRUE, FALSE)
        ELSE IF ~ParsedOf[generated].ok
        THEN Run("returned", "",
                 Handoff(ParseHandoffMessage, ParseFailedReason, retrieval_result,
                         gate_decision, 0, 0, request_id),
                 got.cache, FALSE, TRUE, TRUE, FALSE)
        ELSE Validate(question, request_id, ParsedOf[generated].value,
                      retrieval_result, gate_decision, got.cache, t)

----------------------------------------------------------------------------
(* TokenAwareChunker.chunk_text.  The text is taken as the token stream    *)
(* that encoding.encode gives for it; a token is the piece of text that    *)
(* encoding.decode gives back for it, and decode of a list of tokens is    *)
(* the concatenation of the pieces.                                        *)

\* tokens: a word, a word with its leading space, a lone space
TokenPieces == {"a", " b", " "}

RECURSIVE Decode(_)
Decode(toks) == IF toks = <<>> THEN "" ELSE Head(toks) \o Decode(Tail(toks))

\* tokens[start:end] of Python, positions from 0, end cut at the length
Slice(toks, from, to) ==
    SubSeq(toks, from + 1, IF to < Len(toks) THEN to ELSE Len(toks))

\* the dataclass Chunk; chunk_tokens is the local of chunk_text from which
\* the chunk was decoded, kept with the chunk for the properties
Chunk(text, id, source, token_count, chunk_tokens) ==
    [text |-> text, chunk_id |-> id, source |-> source,
     token_count |-> token_count, chunk_tokens |-> chunk_tokens]

\* TokenAwareChunker(chunk_size, overlap), with overlap < chunk_size
\* (otherwise the loop of chunk_text does not advance)
Chunkers ==
    { [chunk_size |-> size, overlap |-> overlap] :
        size \in 1..MaxChunkSize, overlap \in 0..(MaxChunkSize - 1) }
    \ { c \in [chunk_size : 1..MaxChunkSize, overlap : 0..(MaxChunkSize - 1)] :
          c.overlap >= c.chunk_size }

RECURSIVE Streams(_)
Streams(n) ==
    IF n = 0 THEN {<<>>}
    ELSE Streams(n - 1)
         \cup { Append(t, p) : t \in {u \in Streams(n - 1) : Len(u) = n - 1},
                               p \in TokenPieces }

\* no call of chunk_text
NoChunking ==
    /\ chunker = [chunk_size |-> 1, overlap |-> 0]
    /\ tokens = <<>>
    /\ chunk_start = 0
    /\ chunk_id = 0
    /\ chunk_list = <<>>

----------------------------------------------------------------------------
(* The state machine.  last records the latest request: its inputs as far  *)
(* as the call consumed them, what the cache held for its key when it      *)
(* started, and how it ended.  inserted records, for each entry of the     *)
(* cache, the type, message and citations of the result returned by the    *)
(* call that stored the entry.                                             *)

Shown(result) ==
    [type |-> result.type, message |-> result.message, citations |-> result.citations]

NoEntry == [present |-> FALSE, age |-> 0, shown |-> Shown(NoResult)]

\* what last holds for an input that the call did not consume
Unused == <<>>

(* The chat endpoint (app/main.py): requests, each handled by a coroutine  *)
(* on the one event loop of the worker process.  A request is a record:    *)
(* where its coroutine stands (pc), what came with it (question, header),  *)
(* what the collaborators answered (results, generated), what chat has     *)
(* done so far (stages, search_calls, generate_calls, seen, stored,        *)
(* result: the cache as its cache check left it, whether it has stored     *)
(* its result there) and                                                   *)
(* what the endpoint answered (status, detail) and counted in the metrics. *)

Clients == 1..MaxClients

\* the X-Request-ID header of a request: absent, or present with its value
\* (which a client may leave empty)
XRequestId(present, value) == [present |-> present, value |-> value]
NoHeader == XRequestId(FALSE, "")
ServeHeaders == {NoHeader, XRequestId(TRUE, ""), XRequestId(TRUE, "r1")}

ServeQuestions == {"What is CBCT?", "Cost?"}
ServeSearchResults == {<<>>, <<90, 30>>}
ServeModelOutcomes ==
    { <<"{", "ans", "}">>, <<"{", "ansNoCit", "}">>, <<"{", "other", "}">>,
      <<"text">>, ModelThrows }

Metrics(total_requests, total_answers, total_handoffs, total_errors) ==
    [total_requests |-> total_requests, total_answers |-> total_answers,
     total_handoffs |-> total_handoffs, total_errors |-> total_errors]

\* Metrics.record_request
record_request(m, response_type) ==
    [m EXCEPT !.total_requests = @ + 1,
              !.total_answers = IF response_type = JStr("answer") THEN @ + 1 ELSE @,
              !.total_handoffs = IF response_type = JStr("answer") THEN @ ELSE @ + 1]

\* Metrics.record_error
record_error(m) == [m EXCEPT !.total_errors = @ + 1]

\* a request that has not reached the server yet
Waiting ==
    [pc |-> "waiting", question |-> "", header |-> NoHeader, request_id |-> "",
     response_request_id |-> "", response_header |-> "",
     results |-> Unused, generated |-> Unused, stages |-> <<>>,
     search_calls |-> 0, generate_calls |-> 0, seen |-> <<>>,
     stored |-> FALSE,
     result |-> NoResult, exception |-> "", status |-> 0, detail |-> "",
     recorded_requests |-> 0, recorded_errors |-> 0]

\* the detail of the HTTPException raised by the endpoint
ChatErrorDetail == "Failed to process chat request"

\* ChatResponse(type=result.type, message=result.message, ...) validates:
\* type is a ResponseType, message a str, citations a list of str,
\* handoff_reason a str or None
ChatResponseValidates(result) ==
    /\ result.type \in {JStr("answer"), JStr("handoff")}
    /\ result.message.kind = "str"
    /\ result.citations.kind = "list"
    /\ result.handoff_reason.kind \in {"str", "null"}

\* no request at the endpoint
NoServing ==
    /\ requests = <<>>
    /\ loop = 0
    /\ metrics = Metrics(0, 0, 0, 0)

(* VectorStore.search.  The index holds the vectors of chunks 0 .. n-1, in  *)
(* the order of self.chunks.  index.search answers top_k slots of (index,   *)
(* score), best first; where the index holds fewer than top_k vectors the   *)
(* slots left over hold the index -1 and the least float as score.          *)

\* settings.retrieval_top_k
retrieval_top_k == MaxTopK

\* the score faiss puts into a slot without a vector (-3.4028235e+38)
NoScore == -100000

Slot(idx, score) == [idx |-> idx, score |-> score]

\* inner products of normalized embeddings, in hundredths
ScoreValues == {-10, 20, 25, 30, 90}

\* the slots that hold vectors: different vectors, scores not increasing
Found(n, m) ==
    { a \in [1..m -> [idx : 0..(n - 1), score : ScoreValues]] :
        /\ \A i, j \in 1..m : i # j => a[i].idx # a[j].idx
        /\ \A i \in 1..(m - 1) : a[i].score >= a[i + 1].score }

\* what index.search can answer on an index of n vectors
FaissAnswers(n, top_k) ==
    LET m == IF n < top_k THEN n ELSE top_k
    IN  { [i \in 1..top_k |-> IF i <= m THEN a[i] ELSE Slot(-1, NoScore)] :
            a \in Found(n, m) }

\* self.chunks[idx] for a list of n chunks: Python counts a negative index
\* from the end
PyIndex(n, idx) == IF idx >= 0 THEN idx ELSE n + idx

\* VectorStore.search after index.search has answered: the loop over the
\* slots; self.chunks[idx] raises IndexError on an empty list
VectorStoreSearch(n, answer) ==
    LET taken == SelectSeq(answer, LAMBDA slot : slot.idx < n)
    IN  IF \E i \in 1..Len(taken) : PyIndex(n, taken[i].idx) \notin 0..(n - 1)
        THEN [raised |-> TRUE, results |-> <<>>]
        ELSE [raised |-> FALSE,
              results |-> [i \in 1..Len(taken) |->
                              Hit(PyIndex(n, taken[i].idx), taken[i].score)]]

\* the queries put to the gate
GateQueries ==
    { "What is CBCT?", "Check MY SCAN", "my diagnosis?", "My Treatment plan",
      "my x-ray", "Do I need it", "my tooth cost", "Cost?" }

\* a retrieval: the query, the number of chunks in the store, the answer
\* of the index, and what retrieve_context and the gate made of it
Lookup(pc, query, n, answer, results, retrieval_result, gate_decision) ==
    [pc |-> pc, query |-> query, n |-> n, answer |-> answer, results |-> results,
     retrieval_result |-> retrieval_result, gate_decision |-> gate_decision]

NoRetrieval == RetrievalResult(<<>>, <<>>, 0, FALSE)
NoDecision == GateDecision(FALSE, "")

\* no retrieval under way
NoLookup == lookup = Lookup("none", "", 0, <<>>, <<>>, NoRetrieval, NoDecision)

(* The class ByteDentChatbot: the class attributes _instance (here whether  *)
(* the one instance exists) and _initialized, the attributes that __init__  *)
(* sets on the instance, and where __init__ stands (pc).  model and         *)
(* vector_store are "absent" until assigned; index is None until            *)
(* build_index assigns it; ntotal is the number of vectors in the index     *)
(* and chunks the length of vector_store.chunks.  instances, embed_loads,   *)
(* llm_loads and index_builds count what construction has done.             *)

Bot(_instance, _initialized, pc, _start_time, chunker_set, vector_store, index, ntotal, indexed, model, instances, embed_loads, llm_loads, index_builds, failures) ==
    [_instance |-> _instance, _initialized |-> _initialized, pc |-> pc,
     _start_time |-> _start_time, chunker |-> chunker_set,
     vector_store |-> vector_store, index |-> index, ntotal |-> ntotal,
     chunks |-> indexed, model |-> model, instances |-> instances,
     embed_loads |-> embed_loads, llm_loads |-> llm_loads,
     index_builds |-> index_builds, failures |-> failures]

\* the class before the first ByteDentChatbot()
NoBot ==
    Bot(FALSE, FALSE, "idle", 0, FALSE, "absent", "None", 0, 0, "absent",
        0, 0, 0, 0, 0)

\* is_healthy without the test on the number of vectors
IsHealthyWithoutVectors(b) ==
    IF b.model = "absent" \/ b.vector_store = "absent"
    THEN FALSE
    ELSE b.model # "None" /\ b.index # "None"

\* ByteDentChatbot.is_healthy on an instance in state b: an attribute that
\* is not there raises AttributeError, which the except turns into False
is_healthy(b) ==
    IF b.model = "absent" \/ b.vector_store = "absent"
    THEN FALSE
    ELSE b.model # "None" /\ b.index # "None" /\ b.ntotal > 0

\* a call from outside and what it gave back: result is the value returned
\* as Python prints it ("raised" when the call raised), seconds the uptime
\* returned, status and body the HTTP answer; at is the instance as the
\* call found it
Probe(call, result, seconds, status, body, at) ==
    [call |-> call, result |-> result, seconds |-> seconds, status |-> status,
     body |-> body, at |-> at]

NoProbe == Probe("none", "", 0, 0, "", NoBot)

\* str(b) of a Python bool
PyBool(b) == IF b THEN "True" ELSE "False"

\* what the vector search answers in a chat request on the singleton
BotSearchResults == {<<20>>, <<90, 30>>}

\* no chatbot yet
NoStartup == bot = NoBot /\ probe = NoProbe

\* last before any request
NoRequest ==
    [outcome |-> "none", exception |-> "", question |-> "",
     request_id |-> "", results |-> Unused, generated |-> Unused,
     before |-> NoEntry, result |-> NoResult,
     hit |-> FALSE, search_calls |-> 0, generate_calls |-> 0,
     stored |-> FALSE]

Init ==
    /\ cache = <<>>
    /\ hits = 0
    /\ misses = 0
    /\ now = 0
    /\ inserted = <<>>
    /\ last = NoRequest
    /\ calls = <<>>
    /\ NoChunking
    /\ NoServing
    /\ NoLookup
    /\ NoStartup

\* the ghost inserted, kept parallel to the cache
InsertedAfter(run) ==
    [i \in 1..Len(run.cache) |->
        IF run.stored /\ i = Len(run.cache)
        THEN Shown(run.result)
        ELSE inserted[IndexOf(cache, run.cache[i].key)]]

\* the entry that the cache holds for a key
Before(key) ==
    IF key \in Keys(cache)
    THEN [present |-> TRUE,
          age |-> now - cache[IndexOf(cache, key)].timestamp,
          shown |-> inserted[IndexOf(cache, key)]]
    ELSE NoEntry

\* the answers that the vector search and the model can give to a request:
\* none (Unused) where the request does not get as far as calling them
SearchAnswers(question) ==
    IF CacheGet(cache, question, now).hit THEN {Unused} ELSE SearchResults

ModelAnswers(question, results) ==
    IF CacheGet(cache, question, now).hit \/ GateOf[question][results].should_handoff
    THEN {Unused}
    ELSE ModelOutcomes

Chat ==
    /\ hits + misses < MaxRequests
    /\ \E question \in Questions, request_id \in RequestIds :
       \E results \in SearchAnswers(question) :
       \E generated \in ModelAnswers(question, results) :
       \E run \in {chat(question, request_id, results, generated,
                        cache, now, hits + misses)} :
            /\ run.search_calls = 0 => results = Unused
            /\ run.generate_calls = 0 => generated = Unused
            /\ cache' = run.cache
            /\ hits' = IF run.hit THEN hits + 1 ELSE hits
            /\ misses' = IF run.hit THEN misses ELSE misses + 1
            /\ now' = now
            /\ inserted' = InsertedAfter(run)
            /\ last' = [outcome |-> run.outcome, exception |-> run.exception,
                        question |-> question, request_id |-> request_id,
                        results |-> results, generated |-> generated,
                        before |-> Before(KeyOf[question]), result |-> run.result,
                        hit |-> run.hit, search_calls |-> run.search_calls,
                        generate_calls |-> run.generate_calls,
                        stored |-> run.stored]
            /\ UNCHANGED <<calls, chunkVars, serveVars, gateVars, botVars>>

\* time passes between requests
Tick ==
    /\ now < MaxTime
    /\ now' = now + 1
    /\ UNCHANGED <<cache, hits, misses, last, inserted, calls, chunkVars, serveVars, gateVars, botVars>>

Next == Chat \/ Tick

Spec == Init /\ [][Next]_vars

----------------------------------------------------------------------------
(* ResponseCache used directly: get and set called in any order, at any    *)
(* time, on a cache constructed with max_size = CacheCapacity.  calls      *)
(* records every call: its argument, what it returned (get) or was given   *)
(* (set), the time, and the cache before and after it.                     *)

CacheQueries == {"What is CBCT?", "  what is cbct? ", "Cost?", "CBCT", "My scan"}

\* the object handed to set by the n-th call
ResultOf(n) == "result-" \o Digit(n)

\* get returning None
NoneResult == "None"

Call(op, query, result, hit, time, before, after) ==
    [op |-> op, query |-> query, result |-> result, hit |-> hit,
     time |-> time, before |-> before, after |-> after]

CacheInit ==
    /\ cache = <<>>
    /\ hits = 0
    /\ misses = 0
    /\ now = 0
    /\ calls = <<>>
    /\ inserted = <<>>
    /\ last = NoRequest
    /\ NoChunking
    /\ NoServing
    /\ NoLookup
    /\ NoStartup

Get ==
    /\ Len(calls) < MaxCalls
    /\ \E query \in CacheQueries :
        LET got == CacheGet(cache, query, now)
            returned == IF got.hit THEN cache[got.at].result ELSE NoneResult
        IN  /\ cache' = got.cache
            /\ hits' = IF got.hit THEN hits + 1 ELSE hits
            /\ misses' = IF got.hit THEN misses ELSE misses + 1
            /\ calls' = Append(calls, Call("get", query, returned, got.hit,
                                           now, cache, got.cache))
    /\ UNCHANGED <<now, last, inserted, chunkVars, serveVars, gateVars, botVars>>

Set ==
    /\ Len(calls) < MaxCalls
    /\ \E query \in CacheQueries :
        LET result == ResultOf(Len(calls) + 1)
            after == ResponseCacheSet(CacheCapacity, cache, query, result, now)
        IN  /\ cache' = after
            /\ calls' = Append(calls, Call("set", query, result, FALSE,
                                           now, cache, after))
    /\ UNCHANGED <<hits, misses, now, last, inserted, chunkVars, serveVars, gateVars, botVars>>

CacheNext == Get \/ Set \/ Tick

CacheSpec == CacheInit /\ [][CacheNext]_vars

----------------------------------------------------------------------------
(* chunk_text, one iteration of its while loop at a time; the call has     *)
(* returned chunk_list when chunk_start has reached the end of the tokens            *)

ChunkInit ==
    /\ chunker \in Chunkers
    /\ tokens \in Streams(MaxTokens)
    /\ chunk_start = 0
    /\ chunk_id = 0
    /\ chunk_list = <<>>
    /\ cache = <<>>
    /\ hits = 0
    /\ misses = 0
    /\ now = 0
    /\ calls = <<>>
    /\ inserted = <<>>
    /\ last = NoRequest
    /\ NoServing
    /\ NoLookup
    /\ NoStartup

\* the loop of chunk_text counting every window, emitted or not
ChunkStepCountingWindows ==
    /\ chunk_start < Len(tokens)
    /\ LET end == chunk_start + chunker.chunk_size
           chunk_tokens == Slice(tokens, chunk_start, end)
           text == Strip(Decode(chunk_tokens))
       IN  /\ chunk_list' = IF text # ""
                        THEN Append(chunk_list, Chunk(text, chunk_id, "knowledge_base",
                                                  Len(chunk_tokens), chunk_tokens))
                        ELSE chunk_list
           /\ chunk_id' = chunk_id + 1
           /\ chunk_start' = end - chunker.overlap
    /\ UNCHANGED <<chunker, tokens, cache, hits, misses, now, calls, inserted, last, serveVars, gateVars, botVars>>

\* the loop of chunk_text moving the window on by the overlap
ChunkStepAdvancingByOverlap ==
    /\ chunk_start < Len(tokens)
    /\ LET end == chunk_start + chunker.chunk_size
           chunk_tokens == Slice(tokens, chunk_start, end)
           text == Strip(Decode(chunk_tokens))
       IN  /\ chunk_list' = IF text # ""
                        THEN Append(chunk_list, Chunk(text, chunk_id, "knowledge_base",
                                                  Len(chunk_tokens), chunk_tokens))
                        ELSE chunk_list
           /\ chunk_id' = IF text # "" THEN chunk_id + 1 ELSE chunk_id
           /\ chunk_start' = chunk_start + chunker.overlap
    /\ UNCHANGED <<chunker, tokens, cache, hits, misses, now, calls, inserted, last, serveVars, gateVars, botVars>>

ChunkStep ==
    /\ chunk_start < Len(tokens)
    /\ LET end == chunk_start + chunker.chunk_size
           chunk_tokens == Slice(tokens, chunk_start, end)
           text == Strip(Decode(chunk_tokens))
       IN  /\ chunk_list' = IF text # ""
                        THEN Append(chunk_list, Chunk(text, chunk_id, "knowledge_base",
                                                  Len(chunk_tokens), chunk_tokens))
                        ELSE chunk_list
           /\ chunk_id' = IF text # "" THEN chunk_id + 1 ELSE chunk_id
           /\ chunk_start' = end - chunker.overlap
    /\ UNCHANGED <<chunker, tokens, cache, hits, misses, now, calls, inserted, last, serveVars, gateVars, botVars>>

ChunkNext == ChunkStep

ChunkSpec == ChunkInit /\ [][ChunkNext]_vars

\* chunk_text as it runs: a loop that can go on does go on
ChunkLiveSpec == ChunkInit /\ [][ChunkNext]_vars /\ WF_vars(ChunkStep)

----------------------------------------------------------------------------
(* Requests arriving together at one worker.  The coroutine of a request   *)
(* runs request_middleware up to `await call_next(request)`, then the      *)
(* endpoint chat, which calls ByteDentChatbot.chat (a plain function: it   *)
(* is taken here one stage at a time) and answers.  loop is the request    *)
(* whose coroutine runs on the event loop, 0 when none does.               *)

ServeInit ==
    /\ requests = [r \in Clients |-> Waiting]
    /\ loop = 0
    /\ metrics = Metrics(0, 0, 0, 0)
    /\ cache = <<>>
    /\ hits = 0
    /\ misses = 0
    /\ now = 0
    /\ calls = <<>>
    /\ inserted = <<>>
    /\ last = NoRequest
    /\ NoChunking
    /\ NoLookup
    /\ NoStartup

\* what the endpoint leaves alone: the clock stands still while the
\* requests are served
idle == <<now, last, inserted, calls, chunkVars, gateVars, botVars>>

\* the coroutine gives up the event loop as if the generation were awaited
SuspendsAtGeneration(pc) == pc \in {"call_next", "done", "generating"}

\* the points at which a coroutine gives up the event loop: the await of
\* the middleware, and its end; the endpoint awaits nothing
SuspendsAt(pc) == pc \in {"call_next", "done"}

\* the coroutine of request r can run a step from pc
Runs(r, pc) == loop \in {0, r} /\ requests[r].pc = pc

\* request r goes on as the record to
Proceed(r, to) ==
    /\ requests' = [requests EXCEPT ![r] = to]
    /\ loop' = IF SuspendsAt(to.pc) THEN 0 ELSE r

\* chat: request_id = request_id or str(uuid.uuid4()), where the endpoint
\* passes the request_id of the middleware
ChatRequestId(r) ==
    IF requests[r].request_id = "" THEN Uuid4(MaxClients + r)
                                   ELSE requests[r].request_id

\* request_middleware, up to the await of call_next
Middleware ==
    \E r \in Clients, question \in ServeQuestions, header \in ServeHeaders :
        /\ Runs(r, "waiting")
        /\ Proceed(r, [requests[r] EXCEPT
                          !.pc = "call_next", !.question = question,
                          !.header = header,
                          !.request_id = IF header.present THEN header.value
                                                           ELSE Uuid4(r)])
        /\ UNCHANGED <<cache, hits, misses, metrics, idle>>

\* the endpoint is entered and calls chatbot.chat
Endpoint ==
    \E r \in Clients :
        /\ Runs(r, "call_next")
        /\ Proceed(r, [requests[r] EXCEPT !.pc = "cache_check"])
        /\ UNCHANGED <<cache, hits, misses, metrics, idle>>

\* the cache check handing out the stored result as it is
CacheCheckKeepingStoredId ==
    \E r \in Clients :
        /\ Runs(r, "cache_check")
        /\ LET req == requests[r]
               got == CacheGet(cache, req.question, now)
               cached == cache[got.at].result
           IN  IF got.hit
               THEN /\ cache' = [cache EXCEPT ![got.at].result = cached]
                    /\ hits' = hits + 1
                    /\ misses' = misses
                    /\ Proceed(r, [req EXCEPT !.pc = "respond", !.result = cached,
                                              !.stages = Append(@, "cache_check"),
                                              !.seen = cache'])
               ELSE /\ cache' = got.cache
                    /\ hits' = hits
                    /\ misses' = misses + 1
                    /\ Proceed(r, [req EXCEPT !.pc = "retrieve",
                                              !.stages = Append(@, "cache_check"),
                                              !.seen = got.cache])
        /\ UNCHANGED <<metrics, idle>>

\* chat: the cache check
CacheCheck ==
    \E r \in Clients :
        /\ Runs(r, "cache_check")
        /\ LET req == requests[r]
               got == CacheGet(cache, req.question, now)
               cached == [cache[got.at].result EXCEPT !.request_id = ChatRequestId(r),
                                                      !.total_time_ms = 0]
           IN  IF got.hit
               THEN /\ cache' = [cache EXCEPT ![got.at].result = cached]
                    /\ hits' = hits + 1
                    /\ misses' = misses
                    /\ Proceed(r, [req EXCEPT !.pc = "respond", !.result = cached,
                                              !.stages = Append(@, "cache_check"),
                                              !.seen = cache'])
               ELSE /\ cache' = got.cache
                    /\ hits' = hits
                    /\ misses' = misses + 1
                    /\ Proceed(r, [req EXCEPT !.pc = "retrieve",
                                              !.stages = Append(@, "cache_check"),
                                              !.seen = got.cache])
        /\ UNCHANGED <<metrics, idle>>

\* chat, step 1: retrieve_context, with its one vector search
Retrieve ==
    \E r \in Clients, results \in ServeSearchResults :
        /\ Runs(r, "retrieve")
        /\ Proceed(r, [requests[r] EXCEPT !.pc = "gate", !.results = results,
                                          !.search_calls = @ + 1,
                                          !.stages = Append(@, "retrieve")])
        /\ UNCHANGED <<cache, hits, misses, metrics, idle>>

\* chat, steps 2 and 3: the gate, and the handoff when it says so
Gate ==
    \E r \in Clients :
        /\ Runs(r, "gate")
        /\ LET req == requests[r]
               retrieval_result == RetrievalOf[req.results]
               gate_decision == GateOf[req.question][req.results]
           IN  IF gate_decision.should_handoff
               THEN Proceed(r, [req EXCEPT
                        !.pc = "respond", !.stages = Append(@, "gate"),
                        !.result = Handoff(GateHandoffMessage, gate_decision.reason,
                                           retrieval_result, gate_decision, 0, 0,
                                           ChatRequestId(r))])
               ELSE Proceed(r, [req EXCEPT !.pc = "generate",
                                           !.stages = Append(@, "gate")])
        /\ UNCHANGED <<cache, hits, misses, metrics, idle>>

\* chat, step 4: _generate_response is called
GenerateBegin ==
    \E r \in Clients :
        /\ Runs(r, "generate")
        /\ Proceed(r, [requests[r] EXCEPT !.pc = "generating",
                                          !.generate_calls = @ + 1,
                                          !.stages = Append(@, "generate")])
        /\ UNCHANGED <<cache, hits, misses, metrics, idle>>

\* the model call that throws is turned into a handoff
GenerateEndAsHandoff ==
    \E r \in Clients, generated \in ServeModelOutcomes :
        /\ Runs(r, "generating")
        /\ LET req == requests[r]
           IN  IF generated = ModelThrows
               THEN Proceed(r, [req EXCEPT
                        !.pc = "respond", !.generated = generated,
                        !.result = Handoff(ParseHandoffMessage, "Model error",
                                           RetrievalOf[req.results],
                                           GateOf[req.question][req.results], 0, 0,
                                           ChatRequestId(r))])
               ELSE Proceed(r, [req EXCEPT !.pc = "parse", !.generated = generated])
        /\ UNCHANGED <<cache, hits, misses, metrics, idle>>

\* _generate_response returns a text, or the model call throws and the
\* exception leaves chat
GenerateEnd ==
    \E r \in Clients, generated \in ServeModelOutcomes :
        /\ Runs(r, "generating")
        /\ LET req == requests[r]
           IN  IF generated = ModelThrows
               THEN Proceed(r, [req EXCEPT !.pc = "except", !.generated = generated,
                                           !.exception = "ModelError"])
               ELSE Proceed(r, [req EXCEPT !.pc = "parse", !.generated = generated])
        /\ UNCHANGED <<cache, hits, misses, metrics, idle>>

\* a parse failure sends the request back to the generation
ParseRetrying ==
    \E r \in Clients :
        /\ Runs(r, "parse")
        /\ LET req == requests[r]
           IN  IF ParsedOf[req.generated].ok
               THEN Proceed(r, [req EXCEPT !.pc = "validate",
                                           !.stages = Append(@, "parse")])
               ELSE Proceed(r, [req EXCEPT !.pc = "generate"])
        /\ UNCHANGED <<cache, hits, misses, metrics, idle>>

\* chat, step 5: _parse_json_response, and the handoff when it fails
Parse ==
    \E r \in Clients :
        /\ Runs(r, "parse")
        /\ LET req == requests[r]
           IN  IF ParsedOf[req.generated].ok
               THEN Proceed(r, [req EXCEPT !.pc = "validate",
                                           !.stages = Append(@, "parse")])
               ELSE Proceed(r, [req EXCEPT
                        !.pc = "respond", !.stages = Append(@, "parse"),
                        !.result = Handoff(ParseHandoffMessage, ParseFailedReason,
                                           RetrievalOf[req.results],
                                           GateOf[req.question][req.results], 0, 0,
                                           ChatRequestId(r))])
        /\ UNCHANGED <<cache, hits, misses, metrics, idle>>

\* chat, steps 6 and 7: validation, and the caching of an answer
Validation ==
    \E r \in Clients :
        /\ Runs(r, "validate")
        /\ LET req == requests[r]
               run == Validate(req.question, ChatRequestId(r),
                               ParsedOf[req.generated].value,
                               RetrievalOf[req.results],
                               GateOf[req.question][req.results], cache, now)
           IN  /\ cache' = run.cache
               /\ IF run.outcome = "raised"
                  THEN Proceed(r, [req EXCEPT !.pc = "except",
                                              !.stages = Append(@, "validate"),
                                              !.exception = run.exception])
                  ELSE Proceed(r, [req EXCEPT !.pc = "respond",
                                              !.stages = Append(@, "validate"),
                                              !.stored = run.stored,
                                              !.result = run.result])
        /\ UNCHANGED <<hits, misses, metrics, idle>>

\* the endpoint after chat has returned: record_request, then the
\* ChatResponse with the request_id of the middleware; a result the
\* response model rejects raises inside the try block and is answered as
\* an error by http_exception_handler.  The middleware then puts its
\* request_id into the X-Request-ID header of the response.
Respond ==
    \E r \in Clients :
        /\ Runs(r, "respond")
        /\ LET req == requests[r]
               counted == record_request(metrics, req.result.type)
           IN  IF ChatResponseValidates(req.result)
               THEN /\ metrics' = counted
                    /\ Proceed(r, [req EXCEPT !.pc = "done", !.status = 200,
                                              !.response_request_id = req.request_id,
                                              !.response_header = req.request_id,
                                              !.recorded_requests = @ + 1])
               ELSE /\ metrics' = record_error(counted)
                    /\ Proceed(r, [req EXCEPT !.pc = "done", !.status = 500,
                                              !.detail = ChatErrorDetail,
                                              !.exception = "ValidationError",
                                              !.response_request_id = req.request_id,
                                              !.response_header = req.request_id,
                                              !.recorded_requests = @ + 1,
                                              !.recorded_errors = @ + 1])
        /\ UNCHANGED <<cache, hits, misses, idle>>

\* the endpoint when chat has raised: record_error and HTTP 500
Except ==
    \E r \in Clients :
        /\ Runs(r, "except")
        /\ metrics' = record_error(metrics)
        /\ Proceed(r, [requests[r] EXCEPT !.pc = "done", !.status = 500,
                                          !.detail = ChatErrorDetail,
                                          !.response_request_id = requests[r].request_id,
                                          !.response_header = requests[r].request_id,
                                          !.recorded_errors = @ + 1])
        /\ UNCHANGED <<cache, hits, misses, idle>>

ServeNext ==
    \/ Middleware \/ Endpoint \/ CacheCheck \/ Retrieve \/ Gate
    \/ GenerateBegin \/ GenerateEnd \/ Parse \/ Validation
    \/ Respond \/ Except

ServeSpec == ServeInit /\ [][ServeNext]_vars

----------------------------------------------------------------------------
(* One retrieval: retrieve_context on a store of n chunks whose index       *)
(* answers the search, then the gate on what was retrieved.                 *)

GateInit ==
    /\ \E query \in GateQueries, n \in 0..MaxIndexed :
       \E answer \in FaissAnswers(n, retrieval_top_k) :
          lookup = Lookup("start", query, n, answer, <<>>, NoRetrieval, NoDecision)
    /\ cache = <<>>
    /\ hits = 0
    /\ misses = 0
    /\ now = 0
    /\ calls = <<>>
    /\ inserted = <<>>
    /\ last = NoRequest
    /\ NoChunking
    /\ NoServing
    /\ NoStartup

\* retrieve_context: the search, and the filter on what it returned
RetrieveContext ==
    /\ lookup.pc = "start"
    /\ LET found == VectorStoreSearch(lookup.n, lookup.answer)
       IN  lookup' = IF found.raised
                     THEN [lookup EXCEPT !.pc = "raised"]
                     ELSE [lookup EXCEPT !.pc = "retrieved",
                                         !.results = found.results,
                                         !.retrieval_result =
                                             retrieve_context(found.results)]
    /\ UNCHANGED <<cache, hits, misses, now, last, inserted, calls, chunkVars, serveVars, botVars>>

\* answerability_gate on the result of the retrieval
AnswerabilityGate ==
    /\ lookup.pc = "retrieved"
    /\ lookup' = [lookup EXCEPT
                     !.pc = "decided",
                     !.gate_decision =
                         answerability_gate(lookup.query, lookup.retrieval_result)]
    /\ UNCHANGED <<cache, hits, misses, now, last, inserted, calls, chunkVars, serveVars, botVars>>

GateNext == RetrieveContext \/ AnswerabilityGate

GateSpec == GateInit /\ [][GateNext]_vars

----------------------------------------------------------------------------
(* The life of the singleton: ByteDentChatbot() called by the lifespan of   *)
(* the application (and by get_chatbot after it), __init__ step by step,    *)
(* and the calls made on the instance once it is initialized.               *)

BotInit ==
    /\ bot = NoBot
    /\ probe = NoProbe
    /\ cache = <<>>
    /\ hits = 0
    /\ misses = 0
    /\ now = 0
    /\ calls = <<>>
    /\ inserted = <<>>
    /\ last = NoRequest
    /\ NoChunking
    /\ NoServing
    /\ NoLookup

\* what the calls on the singleton leave alone
rest == <<last, inserted, calls, chunkVars, serveVars, gateVars>>

\* get_chatbot running __init__ on every call
GetChatbotReinitializing ==
    /\ bot.pc = "idle"
    /\ bot' = [bot EXCEPT !._instance = TRUE,
                           !.instances = IF bot._instance THEN @ ELSE @ + 1,
                           !._start_time = now,
                           !.pc = "init_chunker"]
    /\ probe' = Probe("get_chatbot", "", 0, 0, "", bot)
    /\ UNCHANGED <<cache, hits, misses, now, rest>>

\* get_chatbot: ByteDentChatbot().  __new__ makes the instance if there is
\* none; __init__ returns at once when the class is initialized and
\* otherwise starts the initialization
GetChatbot ==
    /\ bot.pc = "idle"
    /\ IF bot._initialized
       THEN /\ bot' = bot
            /\ probe' = Probe("get_chatbot", "instance", 0, 0, "", bot)
       ELSE /\ bot' = [bot EXCEPT !._instance = TRUE,
                                  !.instances = IF bot._instance THEN @ ELSE @ + 1,
                                  !._start_time = now,
                                  !.pc = "init_chunker"]
            /\ probe' = Probe("get_chatbot", "", 0, 0, "", bot)
    /\ UNCHANGED <<cache, hits, misses, now, rest>>

\* __init__: _init_chunker
InitChunker ==
    /\ bot.pc = "init_chunker"
    /\ bot' = [bot EXCEPT !.chunker = TRUE, !.pc = "init_vector_store"]
    /\ UNCHANGED <<probe, cache, hits, misses, now, rest>>

\* __init__: _init_vector_store; VectorStore.__init__ loads the embedding
\* model and sets index to None and chunks to []
InitVectorStore ==
    /\ bot.pc = "init_vector_store"
    /\ bot' = [bot EXCEPT !.vector_store = "set", !.index = "None", !.ntotal = 0,
                           !.chunks = 0, !.embed_loads = @ + 1, !.pc = "init_llm"]
    /\ UNCHANGED <<probe, cache, hits, misses, now, rest>>

\* __init__: _init_llm
InitLlm ==
    /\ bot.pc = "init_llm"
    /\ bot' = [bot EXCEPT !.model = "Llama", !.llm_loads = @ + 1, !.pc = "build"]
    /\ UNCHANGED <<probe, cache, hits, misses, now, rest>>

\* __init__: _build_knowledge_base with a corpus of n chunks, and the end
\* of __init__.  On an empty corpus index.add may raise (the index then
\* stays assigned and empty) or add nothing.
BuildKnowledgeBase ==
    /\ bot.pc = "build"
    /\ \E n \in 0..MaxIndexed :
       \E added \in IF n = 0 /\ bot.failures < MaxInitFailures THEN BOOLEAN ELSE {TRUE} :
          bot' = [bot EXCEPT !.chunks = n, !.index = "IndexFlatIP", !.ntotal = n,
                             !.index_builds = @ + 1,
                             !._initialized = added,
                             !.failures = IF added THEN @ ELSE @ + 1,
                             !.pc = "idle"]
    /\ UNCHANGED <<probe, cache, hits, misses, now, rest>>

\* a step of __init__ raises (a model file that is missing, say): the
\* exception leaves ByteDentChatbot() with the class not initialized
InitFails ==
    /\ bot.pc \in {"init_chunker", "init_vector_store", "init_llm", "build"}
    /\ bot.failures < MaxInitFailures
    /\ bot' = [bot EXCEPT !.pc = "idle", !.failures = @ + 1]
    /\ UNCHANGED <<probe, cache, hits, misses, now, rest>>

\* is_healthy called on the instance
IsHealthy ==
    /\ bot.pc = "idle"
    /\ bot._instance
    /\ probe' = Probe("is_healthy", PyBool(is_healthy(bot)), 0, 0, "", bot)
    /\ UNCHANGED <<bot, cache, hits, misses, now, rest>>

\* GET /api/v1/health/ready on the running application
Readiness ==
    /\ bot.pc = "idle"
    /\ bot._initialized
    /\ probe' = IF is_healthy(bot)
                 THEN Probe("readiness", "", 0, 200, "ready", bot)
                 ELSE Probe("readiness", "", 0, 503, "Service not ready", bot)
    /\ UNCHANGED <<bot, cache, hits, misses, now, rest>>

\* get_uptime called on the instance
GetUptime ==
    /\ bot.pc = "idle"
    /\ bot._initialized
    /\ probe' = Probe("get_uptime", "", now - bot._start_time, 0, "", bot)
    /\ UNCHANGED <<bot, cache, hits, misses, now, rest>>

\* chat called on the instance; on an index without vectors the search of
\* a request that misses the cache raises IndexError
BotChat ==
    /\ bot.pc = "idle"
    /\ bot._initialized
    /\ hits + misses < MaxRequests
    /\ \E question \in ServeQuestions, request_id \in RequestIds :
       \E results \in BotSearchResults, generated \in ServeModelOutcomes :
       \E run \in {chat(question, request_id, results, generated,
                        cache, now, hits + misses)} :
          IF ~run.hit /\ bot.ntotal = 0
          THEN /\ cache' = CacheGet(cache, question, now).cache
               /\ hits' = hits
               /\ misses' = misses + 1
               /\ probe' = Probe("chat", "raised", 0, 0, "IndexError", bot)
          ELSE /\ cache' = run.cache
               /\ hits' = IF run.hit THEN hits + 1 ELSE hits
               /\ misses' = IF run.hit THEN misses ELSE misses + 1
               /\ probe' = Probe("chat", run.outcome, 0, 0, run.exception, bot)
    /\ UNCHANGED <<bot, now, rest>>

\* time passes between the calls
BotTick ==
    /\ now < MaxTime
    /\ now' = now + 1
    /\ UNCHANGED <<bot, probe, cache, hits, misses, rest>>

BotNext ==
    \/ GetChatbot \/ InitChunker \/ InitVectorStore \/ InitLlm
    \/ BuildKnowledgeBase \/ InitFails
    \/ IsHealthy \/ Readiness \/ GetUptime \/ BotChat \/ BotTick

BotSpec == BotInit /\ [][BotNext]_vars

----------------------------------------------------------------------------
(* Properties *)

Returned == last.outcome = "returned"
IsAnswer(result) == result.type = JStr("answer")
IsHandoff(result) == result.type = JStr("handoff")

\* the request got as far as the gate
GateReached == Returned /\ last.search_calls = 1

\* the model produced a text (it did not throw)
ModelAnswered == last.generate_calls = 1 /\ last.generated # ModelThrows

\* what the questions and model outputs are, stated apart from the pipeline
MentionedTopics ==
    Table([q \in Questions |->
        {handoff_required_topics[i] : i \in
            {j \in 1..Len(handoff_required_topics) :
                Contains(handoff_required_topics[j], Lower(q))}}])

MentionsPatient ==
    Table([q \in Questions |->
        \E i \in 1..Len(patient_patterns) : Contains(patient_patterns[i], Lower(q))])

Hedges ==
    Table([m \in MessageTexts |->
        \E i \in 1..Len(uncertainty_keywords) :
            Contains(uncertainty_keywords[i], Lower(m))])

\* the text from the first "{" to the last "}" of a raw output is a JSON
\* object; FALSE where there is no such pair of braces
HoldsJsonObject ==
    Table([raw \in RawOutputs |->
        \E i \in 1..Len(raw), j \in 1..Len(raw) :
            /\ i < j /\ raw[i] = "{" /\ raw[j] = "}"
            /\ \A k \in 1..(i - 1) : raw[k] # "{"
            /\ \A k \in (j + 1)..Len(raw) : raw[k] # "}"
            /\ LET inner == SelectSeq(SubSeq(raw, i + 1, j - 1), LAMBDA x : x # "ws")
               IN  inner = <<>> \/ (Len(inner) = 1 /\ inner[1] \in BodyNames)])

\* C1: if a request finds an entry for its key that is younger than the TTL
\* (stored by an earlier request that returned an answer), it returns the
\* type, message and citations which that earlier request returned, and it
\* calls neither the vector search nor the model.
C1_RepeatWithinTtlIsServedFromCache ==
    (last.before.present /\ last.before.age < TTL /\ IsAnswer(last.before.shown))
        => /\ Returned
           /\ Shown(last.result) = last.before.shown
           /\ last.search_calls = 0
           /\ last.generate_calls = 0

C1_Witness ==
    /\ last.before.present /\ last.before.age < TTL
    /\ Returned /\ IsAnswer(last.result)
    /\ hits = 1 /\ misses = 1
    /\ last.question = "  what is cbct? "

\* C2: every entry of the cache holds a result of type answer whose message
\* is a text without uncertainty keyword and whose citations are not empty,
\* and a request stores a result only when it returns such an answer: a
\* request that raises or returns anything else leaves no entry for its key.
C2_OnlyValidatedAnswersAreCached ==
    /\ \A i \in 1..Len(cache) :
          LET r == cache[i].result
          IN  /\ IsAnswer(r)
              /\ r.message.kind = "str" /\ ~Hedges[r.message.s]
              /\ Truthy(r.citations)
    /\ last.stored => (Returned /\ IsAnswer(last.result))
    /\ (last.outcome # "none" /\ ~last.hit /\ ~(Returned /\ IsAnswer(last.result)))
          => KeyOf[last.question] \notin Keys(cache)

C2_Witness ==
    /\ last.stored /\ Len(cache) = 1
    /\ cache[1].result = last.result
    /\ cache[1].key = "what is cbct?"

\* C3 (as claimed): every returned result of type handoff has an empty
\* citations list and a handoff_reason that is set.
C3_HandoffHasNoCitationsAndAReason ==
    (Returned /\ IsHandoff(last.result))
        => /\ last.result.citations = JList(<<>>)
           /\ last.result.handoff_reason.kind = "str"

\* C4 (as claimed): every returned result of type answer carries a list of
\* citations of which at least one is a non-empty string.
C4_AnswerHasNonEmptyCitation ==
    (Returned /\ IsAnswer(last.result))
        => /\ last.result.citations.kind = "list"
           /\ \E i \in 1..Len(last.result.citations.l) :
                 Len(last.result.citations.l[i]) > 0

\* C5 (as claimed): a request in which the model call does not throw returns
\* a result whose type is answer or handoff; no exception reaches the caller.
C5_ReturnsAnswerOrHandoff ==
    (last.outcome # "none" /\ last.generated # ModelThrows)
        => /\ Returned
           /\ IsAnswer(last.result) \/ IsHandoff(last.result)


\* what the gate saw in the latest request
SeenRetrieval == last.result.retrieval_result
SeenDecision == last.result.gate_decision
NoChunks == Len(SeenRetrieval.chunks) = 0
LowSimilarity == SeenRetrieval.max_score < handoff_similarity_threshold
LowSimilarityHandoff ==
    /\ SeenDecision.should_handoff
    /\ SeenDecision.reason = LowSimilarityReason(SeenRetrieval.max_score)

\* C6: the gate decides by the first check that matches, in the order no
\* chunks, low similarity, topic keyword, patient-specific pattern; a
\* question with a topic keyword and a low best score gets the
\* low-similarity reason.
C6_GateChecksInOrder ==
    GateReached =>
        LET topics == MentionedTopics[last.question]
            patient == MentionsPatient[last.question]
        IN  /\ NoChunks => SeenDecision = GateDecision(TRUE, NoInformationReason)
            /\ (~NoChunks /\ LowSimilarity) => LowSimilarityHandoff
            /\ (~NoChunks /\ ~LowSimilarity /\ topics # {})
                  => /\ SeenDecision.should_handoff
                     /\ \E t \in topics : SeenDecision.reason = TopicReason(t)
            /\ (~NoChunks /\ ~LowSimilarity /\ topics = {} /\ patient)
                  => SeenDecision = GateDecision(TRUE, PatientSpecificReason)
            /\ (~NoChunks /\ ~LowSimilarity /\ topics = {} /\ ~patient)
                  => SeenDecision = GateDecision(FALSE, AnswerableReason)

C6_Witness ==
    /\ GateReached
    /\ last.question = "Cost?"
    /\ last.results = <<25, 20>>
    /\ LowSimilarityHandoff
    /\ last.result.handoff_reason = JStr("Low similarity score (0.250)")

\* C7: a best score equal to handoff_similarity_threshold is not handed off
\* for low similarity; the low-similarity handoff is given only to a best
\* score strictly below the threshold.
C7_ThresholdIsStrict ==
    GateReached =>
        /\ (last.results # <<>> /\ SeqMax(last.results) = handoff_similarity_threshold)
              => (~NoChunks /\ ~LowSimilarityHandoff)
        /\ LowSimilarityHandoff
              => (last.results # <<>>
                  /\ SeqMax(last.results) < handoff_similarity_threshold)

C7_Witness ==
    /\ GateReached
    /\ last.results = <<30, 25, 20>>
    /\ SeenRetrieval.max_score = handoff_similarity_threshold
    /\ ~SeenDecision.should_handoff
    /\ IsAnswer(last.result)

\* C8: a question that contains a handoff_required_topics keyword, whatever
\* its case, is never answered from the cache and never reaches the model:
\* the request returns a handoff, and where the retrieval passes checks 1
\* and 2 the gate hands off with a reason that names a keyword the question
\* contains.
C8_TopicQuestionIsHandedOffWithoutGeneration ==
    (last.outcome # "none" /\ MentionedTopics[last.question] # {})
        => /\ GateReached
           /\ last.generate_calls = 0
           /\ IsHandoff(last.result)
           /\ SeenDecision.should_handoff
           /\ last.result.handoff_reason = JStr(SeenDecision.reason)
           /\ (~NoChunks /\ ~LowSimilarity)
                 => \E t \in MentionedTopics[last.question] :
                        SeenDecision.reason = TopicReason(t)

C8_Witness ==
    /\ GateReached
    /\ last.question = " COST? "
    /\ last.results = <<90, 30>>
    /\ last.result.handoff_reason
          = JStr("Query requires live support: contains 'cost'")
    /\ last.generate_calls = 0

Declared == ParsedOf[last.generated].value

\* C10: when the parsed model output declares type answer and its message
\* contains an uncertainty keyword, whatever its case, the request returns
\* a handoff with the reason "Model expressed uncertainty", never an answer.
C10_UncertainAnswerIsAHandoff ==
    (/\ ModelAnswered /\ HoldsJsonObject[last.generated]
     /\ Declared.type = JStr("answer")
     /\ Declared.message.kind = "str" /\ Hedges[Declared.message.s])
        => /\ Returned
           /\ IsHandoff(last.result)
           /\ last.result.handoff_reason = JStr("Model expressed uncertainty")
           /\ ~last.stored

C10_Witness ==
    /\ ModelAnswered
    /\ last.generated = <<"{", "ansUnsure", "}">>
    /\ Declared.message = JStr("I'm Not Sure about CBCT")
    /\ Returned /\ IsHandoff(last.result)

\* C11 (as claimed): when the parsed model output declares type answer and
\* its citations are an empty list or missing, the request returns a handoff
\* with the reason "Answer provided without citations".
C11_AnswerWithoutCitationsIsAHandoff ==
    (/\ ModelAnswered /\ HoldsJsonObject[last.generated]
     /\ Declared.type = JStr("answer")
     /\ Declared.citations \in {JList(<<>>), JAbsent})
        => /\ Returned
           /\ IsHandoff(last.result)
           /\ last.result.handoff_reason = JStr("Answer provided without citations")

\* C14 (as claimed): a request served from the cache returns a result that
\* carries its own request_id, and it leaves the stored results as they
\* were: the request_id and total_time_ms of every entry stay unchanged.
C14_HitLeavesTheStoredCopyAlone ==
    [][(hits' = hits + 1 /\ last' # last)
          => /\ last'.request_id # "" => last'.result.request_id = last'.request_id
             /\ Len(cache') = Len(cache)
             /\ \A i \in 1..Len(cache) :
                   /\ cache'[i].result.request_id = cache[i].result.request_id
                   /\ cache'[i].result.total_time_ms = cache[i].result.total_time_ms]_vars

----------------------------------------------------------------------------
(* Properties of ResponseCache (CacheSpec) *)

\* the positions of the entries that a cache holds for the key of a query
EntriesFor(c, query) == {i \in 1..Len(c) : c[i].key = KeyOf[query]}

\* a cache without the entry at a position, the others in their order
Without(c, i) == [j \in 1..(Len(c) - 1) |-> IF j < i THEN c[j] ELSE c[j + 1]]

\* each call starts on the cache the call before it left: between calls
\* (while time passes) no entry is added or removed
CallsAreChained ==
    /\ \A n \in 1..Len(calls) :
          calls[n].before = IF n = 1 THEN <<>> ELSE calls[n - 1].after
    /\ cache = IF calls = <<>> THEN <<>> ELSE calls[Len(calls)].after

\* C12: get returns the stored result exactly when the cache holds an
\* entry for the key of the query whose age is below the TTL, and then
\* leaves the cache as it is; when the age is the TTL or more, get returns
\* None and removes that entry and no other; without an entry get returns
\* None and removes nothing.  Entries disappear in no other way than by
\* such a get or by the eviction of a set: never while time passes.
C12_GetReturnsLiveEntriesAndRemovesExpiredOnes ==
    /\ CallsAreChained
    /\ \A n \in 1..Len(calls) :
          LET call == calls[n]
              at == EntriesFor(call.before, call.query)
          IN  /\ call.op = "get" =>
                    /\ \A i \in at :
                          IF call.time - call.before[i].timestamp < TTL
                          THEN /\ call.hit
                               /\ call.result = call.before[i].result
                               /\ call.after = call.before
                          ELSE /\ ~call.hit
                               /\ call.result = NoneResult
                               /\ call.after = Without(call.before, i)
                    /\ at = {} => /\ ~call.hit
                                  /\ call.result = NoneResult
                                  /\ call.after = call.before
              /\ call.op = "set" =>
                    \A i \in 1..Len(call.before) :
                        (\A j \in 1..Len(call.after) :
                              call.after[j].key # call.before[i].key)
                            => /\ Len(call.before) >= CacheCapacity
                               /\ \A j \in 1..Len(call.before) :
                                     call.before[i].timestamp
                                         <= call.before[j].timestamp

C12_Witness ==
    /\ Len(calls) = 3
    /\ calls[3].op = "get" /\ calls[3].query = "What is CBCT?"
    /\ Len(calls[3].before) = 2
    /\ calls[3].before[1].key = "what is cbct?"
    /\ calls[3].time - calls[3].before[1].timestamp = TTL
    /\ ~calls[3].hit
    /\ Len(cache) = 1 /\ cache[1].key = "cost?"

\* a cache after the insertion of an entry: an entry of the same key is
\* replaced where it stands, otherwise the entry is added at the end
WithEntry(c, entry) ==
    IF \E i \in 1..Len(c) : c[i].key = entry.key
    THEN [i \in 1..Len(c) |-> IF c[i].key = entry.key THEN entry ELSE c[i]]
    ELSE c \o <<entry>>

\* the calls are sets only, of queries with pairwise different keys
DistinctSetsOnly ==
    /\ \A n \in 1..Len(calls) : calls[n].op = "set"
    /\ \A m, n \in 1..Len(calls) :
          m # n => KeyOf[calls[m].query] # KeyOf[calls[n].query]

\* C13: the cache never holds more than max_size entries.  A set on a cache
\* at capacity removes exactly one entry, one of the oldest insertion
\* timestamp, and then inserts; a set below capacity removes nothing.  So
\* max_size + 1 sets of distinct queries on an empty cache leave exactly
\* max_size entries, the first-inserted one absent and the others present.
C13_SizeIsBoundedAndTheOldestIsEvicted ==
    /\ Len(cache) <= CacheCapacity
    /\ \A n \in 1..Len(calls) :
          LET call == calls[n]
              entry == Entry(KeyOf[call.query], call.result, call.time)
          IN  /\ Len(call.after) <= CacheCapacity
              /\ call.op = "set" =>
                    IF Len(call.before) >= CacheCapacity
                    THEN \E i \in 1..Len(call.before) :
                            /\ \A j \in 1..Len(call.before) :
                                  call.before[i].timestamp <= call.before[j].timestamp
                            /\ call.after = WithEntry(Without(call.before, i), entry)
                    ELSE call.after = WithEntry(call.before, entry)
    /\ (Len(calls) = CacheCapacity + 1 /\ DistinctSetsOnly)
          => /\ Len(cache) = CacheCapacity
             /\ KeyOf[calls[1].query] \notin Keys(cache)
             /\ \A n \in 2..Len(calls) : KeyOf[calls[n].query] \in Keys(cache)

C13_Witness ==
    /\ Len(calls) = CacheCapacity + 1 /\ DistinctSetsOnly
    /\ calls[1].query = "What is CBCT?"
    /\ Len(calls[Len(calls)].before) = CacheCapacity
    /\ Len(cache) = CacheCapacity
    /\ "what is cbct?" \notin Keys(cache)

\* a query after trimming its leading and trailing whitespace and
\* lowercasing what is left
Normal == Table([q \in CacheQueries |-> Lower(Strip(q))])

\* the query of the set that stored an entry (each set stores its own result)
StoredBy(entry) ==
    LET n == CHOOSE m \in 1..Len(calls) :
                 calls[m].op = "set" /\ calls[m].result = entry.result
    IN  calls[n].query

\* C15: queries that are equal after lowercasing and trimming address one
\* entry, and queries that differ after it address different entries: a
\* get of q2 within the TTL of a set(q1, r) just before it returns r when
\* q1 and q2 are equal after normalization; a get only ever returns a
\* result that was set under a query equal to its own after normalization;
\* the entries of a cache belong to pairwise different normalized queries;
\* and a set below capacity adds an entry exactly when the cache holds none
\* for a query equal to its own after normalization.
C15_NormalizedQueriesShareAnEntry ==
    /\ \A n \in 2..Len(calls) :
          (/\ calls[n - 1].op = "set" /\ calls[n].op = "get"
           /\ Normal[calls[n - 1].query] = Normal[calls[n].query]
           /\ calls[n].time - calls[n - 1].time < TTL)
              => /\ calls[n].hit
                 /\ calls[n].result = calls[n - 1].result
    /\ \A n \in 1..Len(calls) :
          (calls[n].op = "get" /\ calls[n].hit)
              => \E m \in 1..(n - 1) :
                    /\ calls[m].op = "set"
                    /\ calls[m].result = calls[n].result
                    /\ Normal[calls[m].query] = Normal[calls[n].query]
    /\ \A i, j \in 1..Len(cache) :
          i # j => Normal[StoredBy(cache[i])] # Normal[StoredBy(cache[j])]
    /\ \A n \in 1..Len(calls) :
          (calls[n].op = "set" /\ Len(calls[n].before) < CacheCapacity)
              => Len(calls[n].after) =
                    IF \E i \in 1..Len(calls[n].before) :
                          Normal[StoredBy(calls[n].before[i])] = Normal[calls[n].query]
                    THEN Len(calls[n].before)
                    ELSE Len(calls[n].before) + 1

C15_Witness ==
    /\ Len(calls) = 3
    /\ calls[1].op = "set" /\ calls[1].query = "What is CBCT?"
    /\ calls[2].op = "get" /\ calls[2].query = "  what is cbct? "
    /\ calls[2].hit /\ calls[2].result = calls[1].result
    /\ calls[3].op = "get" /\ calls[3].query = "CBCT"
    /\ ~calls[3].hit

----------------------------------------------------------------------------
(* Properties of chunk_text (ChunkSpec) *)

\* chunk_text has returned
Chunked == chunk_start >= Len(tokens)

\* C16 (as claimed): every chunk has at most chunk_size tokens, and of any
\* two consecutive chunks the last overlap tokens of the first are the
\* first overlap tokens of the second, the final pair included.
C16_ChunksAreBoundedAndOverlapExactly ==
    Chunked =>
        /\ \A i \in 1..Len(chunk_list) :
              chunk_list[i].token_count <= chunker.chunk_size
        /\ \A i \in 1..(Len(chunk_list) - 1) :
              LET a == chunk_list[i].chunk_tokens
                  b == chunk_list[i + 1].chunk_tokens
              IN  /\ Len(a) >= chunker.overlap
                  /\ Len(b) >= chunker.overlap
                  /\ SubSeq(a, Len(a) - chunker.overlap + 1, Len(a))
                        = SubSeq(b, 1, chunker.overlap)

\* the windows that the loop has gone through, numbered from 0: window k
\* starts at token k * (chunk_size - overlap)
Stride == chunker.chunk_size - chunker.overlap
Visited == {k \in 0..MaxTokens : k * Stride < chunk_start /\ k * Stride < Len(tokens)}
WindowAt(k) ==
    [i \in 1..chunker.chunk_size |->
        IF k * Stride + i <= Len(tokens) THEN tokens[k * Stride + i] ELSE ""]

\* a window of nothing but whitespace tokens
BlankPieces == {p \in TokenPieces : \A i \in 1..Len(p) : CharAt(p, i) \in Whitespace}
BlankWindow(k) == \A i \in 1..chunker.chunk_size : WindowAt(k)[i] \in BlankPieces \cup {""}

\* C17: the chunk ids are 0, 1, ..., n-1 in the order of emission; no
\* emitted chunk has an empty text; a window that is empty after trimming
\* is dropped without taking an id: there are as many chunks as windows
\* gone through that are not blank, and the next id is their number.
C17_ChunkIdsAreDense ==
    /\ \A i \in 1..Len(chunk_list) :
          /\ chunk_list[i].chunk_id = i - 1
          /\ chunk_list[i].text # ""
    /\ chunk_id = Len(chunk_list)
    /\ Len(chunk_list) = Cardinality({k \in Visited : ~BlankWindow(k)})

C17_Witness ==
    /\ Chunked
    /\ chunker = [chunk_size |-> 1, overlap |-> 0]
    /\ tokens = <<"a", " ", " b">>
    /\ Len(chunk_list) = 2
    /\ chunk_list[2].chunk_id = 1
    /\ chunk_list[2].text = "b"

----------------------------------------------------------------------------
(* Properties of the chat endpoint (ServeSpec) *)

\* the model call of request r threw
ModelThrew(r) == requests[r].generated = ModelThrows

Answered(r) == requests[r].pc = "done"

RECURSIVE Sum(_, _)
Sum(f, S) ==
    IF S = {} THEN 0
    ELSE LET x == CHOOSE y \in S : TRUE IN f[x] + Sum(f, S \ {x})

\* C18: when the model call throws, chat returns no ChatResult, handoff or
\* other: the exception reaches the endpoint with the cache as the cache
\* check left it, the request stores nothing there, and the endpoint
\* answers 500 with the generic detail, counting one error and no request.
\* The metrics count what the requests recorded and nothing else.
C18_ModelFailureIsAnError ==
    /\ \A r \in Clients :
          ModelThrew(r) =>
              /\ requests[r].pc \in {"except", "done"}
              /\ requests[r].result = NoResult
              /\ requests[r].pc = "except" => cache = requests[r].seen
              /\ ~requests[r].stored
              /\ Answered(r) =>
                    /\ requests[r].status = 500
                    /\ requests[r].detail = "Failed to process chat request"
                    /\ requests[r].recorded_errors = 1
                    /\ requests[r].recorded_requests = 0
    /\ metrics.total_errors = Sum([r \in Clients |-> requests[r].recorded_errors], Clients)
    /\ metrics.total_requests = Sum([r \in Clients |-> requests[r].recorded_requests], Clients)

C18_Witness ==
    /\ \A r \in Clients : Answered(r)
    /\ ModelThrew(1)
    /\ requests[1].status = 500
    /\ requests[2].status = 200 /\ IsAnswer(requests[2].result)
    /\ metrics.total_errors = 1 /\ metrics.total_requests = 1
    /\ Len(cache) = 1

\* where a request stands between the get and the set of its cache check
BetweenGetAndSet == {"retrieve", "gate", "generate", "generating", "parse", "validate"}

\* C19: of the requests that have arrived at the worker, at most one is in
\* a generation call at any time, and at most one is between its cache get
\* and the end of its pipeline (the cache set included): no request takes
\* a step of chat while another is inside chat.
C19_OneRequestInsideChatAtATime ==
    /\ Cardinality({r \in Clients : requests[r].pc = "generating"}) <= 1
    /\ Cardinality({r \in Clients : requests[r].pc \in BetweenGetAndSet}) <= 1
    /\ \A r \in Clients :
          requests[r].pc \in BetweenGetAndSet \cup {"cache_check", "respond", "except"}
              => loop = r

C19_Witness ==
    /\ requests[1].pc = "generating"
    /\ requests[2].pc = "call_next"
    /\ loop = 1

\* the stages of chat, in their order
StageOrder == <<"cache_check", "retrieve", "gate", "generate", "parse", "validate">>

\* C20: a request goes through the stages cache check, retrieval, gate,
\* generation, parse, validation in that order, each at most once and none
\* skipped before a later one: it makes at most one vector search and at
\* most one generation call.  A request whose model output does not parse,
\* or whose answer fails the validation, ends as a handoff after exactly
\* one generation call.
C20_StagesRunOnceInOrder ==
    \A r \in Clients :
        LET req == requests[r]
        IN  /\ req.search_calls <= 1
            /\ req.generate_calls <= 1
            /\ req.stages = SubSeq(StageOrder, 1, Len(req.stages))
            /\ req.search_calls = (IF Len(req.stages) >= 2 THEN 1 ELSE 0)
            /\ req.generate_calls = (IF Len(req.stages) >= 4 THEN 1 ELSE 0)
            /\ (/\ Answered(r) /\ req.generated \in RawOutputs
                 /\ \/ ~HoldsJsonObject[req.generated]
                    \/ req.generated = <<"{", "ansNoCit", "}">>)
                  => /\ IsHandoff(req.result)
                     /\ req.status = 200
                     /\ req.generate_calls = 1

C20_Witness ==
    /\ Answered(1)
    /\ requests[1].generated = <<"text">>
    /\ requests[1].stages = <<"cache_check", "retrieve", "gate", "generate", "parse">>
    /\ IsHandoff(requests[1].result)
    /\ requests[1].result.handoff_reason = JStr(ParseFailedReason)
    /\ requests[1].generate_calls = 1

----------------------------------------------------------------------------
(* Properties of chat over sequences of requests (Spec), continued *)

\* the question contains a handoff_required_topics keyword or a
\* patient-specific pattern, whatever its case
Restricted == Table([q \in Questions |-> MentionedTopics[q] # {} \/ MentionsPatient[q]])

\* C26: after any sequence of requests, a request whose question contains
\* a topic keyword or a patient-specific pattern never returns an answer,
\* from the pipeline or from the cache: it returns a handoff when it
\* returns, it is never a cache hit, and the cache never holds an entry
\* under the key of such a question, however the question is cased or
\* padded.
C26_RestrictedQuestionIsNeverAnswered ==
    /\ (last.outcome # "none" /\ Restricted[last.question])
          => /\ Returned
             /\ ~IsAnswer(last.result)
             /\ IsHandoff(last.result)
             /\ ~last.hit
    /\ \A q \in Questions : Restricted[q] => KeyOf[q] \notin Keys(cache)

C26_Witness ==
    /\ hits + misses = 2
    /\ Len(cache) = 1 /\ IsAnswer(cache[1].result)
    /\ last.question = "Do I need it"
    /\ last.results = <<90, 30>>
    /\ Returned /\ IsHandoff(last.result)
    /\ last.result.handoff_reason = JStr(PatientSpecificReason)

----------------------------------------------------------------------------
(* Properties of ResponseCache (CacheSpec), continued *)

\* the age of entry i of cache c at time t, and whether get would take it
\* as expired
Age(c, i, t) == t - c[i].timestamp
Expired(c, i, t) == Age(c, i, t) >= TTL

\* the clock does not go back, and no entry is stamped later than now
ClockIsMonotone ==
    /\ \A n \in 2..Len(calls) : calls[n - 1].time <= calls[n].time
    /\ \A n \in 1..Len(calls) : calls[n].time <= now
    /\ \A i \in 1..Len(cache) : cache[i].timestamp <= now

\* C27: the clock not going back, an expired entry stays in the cache
\* until a get of its own key or an eviction removes it (a get of another
\* key and the passing of time leave it), and it counts toward capacity: a
\* set evicts exactly when the cache holds max_size entries, expired ones
\* included.  The entry a set evicts is one whose age is at least that of
\* every other entry, so an unexpired entry is never evicted while an
\* expired one is present.
C27_EvictionTakesExpiredEntriesFirst ==
    /\ ClockIsMonotone
    /\ CallsAreChained
    /\ \A n \in 1..Len(calls) :
          LET call == calls[n]
              entry == Entry(KeyOf[call.query], call.result, call.time)
          IN  /\ call.op = "get" =>
                    \A i \in 1..Len(call.before) :
                        call.before[i].key # KeyOf[call.query]
                            => \E j \in 1..Len(call.after) :
                                  call.after[j] = call.before[i]
              /\ (call.op = "set" /\ Len(call.before) < CacheCapacity)
                    => call.after = WithEntry(call.before, entry)
              /\ (call.op = "set" /\ Len(call.before) >= CacheCapacity)
                    => /\ \E i \in 1..Len(call.before) :
                              call.after = WithEntry(Without(call.before, i), entry)
                       /\ \A i \in 1..Len(call.before) :
                              call.after = WithEntry(Without(call.before, i), entry)
                                => \A j \in 1..Len(call.before) :
                                      /\ Age(call.before, i, call.time)
                                            >= Age(call.before, j, call.time)
                                      /\ Expired(call.before, j, call.time)
                                            => Expired(call.before, i, call.time)

C27_Witness ==
    /\ Len(calls) = 3
    /\ \A n \in 1..3 : calls[n].op = "set"
    /\ calls[1].query = "What is CBCT?" /\ calls[1].time = 0
    /\ calls[2].query = "Cost?" /\ calls[2].time = TTL
    /\ calls[3].query = "CBCT" /\ calls[3].time = TTL
    /\ Len(calls[3].before) = CacheCapacity
    /\ Expired(calls[3].before, 1, calls[3].time)
    /\ ~Expired(calls[3].before, 2, calls[3].time)
    /\ Keys(cache) = {"cost?", "cbct"}

\* C28 (as claimed): a set on a query whose key the cache already holds
\* replaces the result and the timestamp of that entry, leaves the entry of
\* every other key as it is, and does not change the number of entries.
C28_SetOnPresentKeyReplacesInPlace ==
    \A n \in 1..Len(calls) :
        LET call == calls[n]
            key == KeyOf[call.query]
        IN  (call.op = "set" /\ key \in Keys(call.before))
                => /\ Len(call.after) = Len(call.before)
                   /\ Entry(key, call.result, call.time) \in
                          {call.after[j] : j \in 1..Len(call.after)}
                   /\ \A i \in 1..Len(call.before) :
                          call.before[i].key # key
                              => call.before[i] \in
                                    {call.after[j] : j \in 1..Len(call.after)}

----------------------------------------------------------------------------
(* Properties of chunk_text (ChunkSpec, ChunkLiveSpec), continued *)

\* the token positions, from 0, of window k: tokens[k * Stride : k * Stride + chunk_size]
WindowEnd(k) ==
    IF k * Stride + chunker.chunk_size < Len(tokens)
    THEN k * Stride + chunker.chunk_size
    ELSE Len(tokens)
WindowPositions(k) == (k * Stride)..(WindowEnd(k) - 1)

\* C24: for every token stream and every 0 <= overlap < chunk_size the
\* loop of chunk_text comes to its end; each iteration moves the start of
\* the window on by exactly chunk_size - overlap tokens; and when the loop
\* has ended, every token of the input lies in one of the windows gone
\* through.
C24_ChunkingTerminatesAndCoversEveryToken ==
    /\ <>Chunked
    /\ [][chunk_start' = chunk_start + (chunker.chunk_size - chunker.overlap)]_vars
    /\ [](Chunked => \A p \in 0..(Len(tokens) - 1) :
                        \E k \in Visited : p \in WindowPositions(k))

C24_Witness ==
    /\ Chunked
    /\ chunker = [chunk_size |-> 3, overlap |-> 1]
    /\ tokens = <<"a", " b", " ", "a">>
    /\ chunk_start = 4
    /\ Len(chunk_list) = 2
    /\ chunk_list[2].chunk_tokens = <<" ", "a">>

\* C29 (as claimed): every window that is emitted after the first holds a
\* token that the window before it does not hold; no chunk lies wholly
\* inside the one before it.
C29_EveryChunkBringsANewToken ==
    \A k \in Visited :
        (k >= 1 /\ ~BlankWindow(k))
            => \E p \in WindowPositions(k) : p \notin WindowPositions(k - 1)

----------------------------------------------------------------------------
(* Properties of the chat endpoint (ServeSpec), continued *)

\* chat has returned a result to the endpoint for request r
ChatReturned(r) == requests[r].pc \in {"respond", "done"} /\ requests[r].result # NoResult

\* the client sent an X-Request-ID that names the request
Supplied(r) == requests[r].header.present /\ requests[r].header.value # ""

----------------------------------------------------------------------------
(* Properties of the retrieval and the gate (GateSpec) *)

\* retrieve_context has built its result
Retrieved == lookup.pc \in {"retrieved", "decided"}

\* the slots of the index's answer that hold a vector scoring at least the
\* threshold, in the order of the answer
Relevant ==
    SelectSeq(lookup.answer,
              LAMBDA slot : slot.idx >= 0 /\ slot.score >= min_similarity_threshold)

\* C23: in every RetrievalResult that retrieve_context builds, scores is
\* as long as chunks and scores[i] is the score the index gave to
\* chunks[i]: the pairs are the vectors the index found with a score of at
\* least min_similarity_threshold (a score equal to it included), in the
\* order found, and nothing else; max_score is the greatest of the scores,
\* or 0.0 when there is none; passed_threshold is true exactly when chunks
\* is not empty.
C23_RetrievalResultIsConsistent ==
    Retrieved =>
        LET rr == lookup.retrieval_result
        IN  /\ Len(rr.scores) = Len(rr.chunks)
            /\ Len(rr.chunks) = Len(Relevant)
            /\ \A i \in 1..Len(rr.chunks) :
                  /\ rr.chunks[i] = Relevant[i].idx
                  /\ rr.scores[i] = Relevant[i].score
                  /\ rr.scores[i] >= min_similarity_threshold
                  /\ rr.scores[i] <= rr.max_score
            /\ rr.scores # <<>> => \E i \in 1..Len(rr.scores) : rr.max_score = rr.scores[i]
            /\ rr.scores = <<>> => rr.max_score = 0
            /\ rr.passed_threshold = (Len(rr.chunks) > 0)

C23_Witness ==
    /\ lookup.pc = "retrieved"
    /\ lookup.n = 3
    /\ lookup.answer = <<Slot(2, 90), Slot(0, 25)>>
    /\ lookup.retrieval_result.chunks = <<2, 0>>
    /\ lookup.retrieval_result.scores = <<90, 25>>
    /\ lookup.retrieval_result.max_score = 90
    /\ lookup.retrieval_result.passed_threshold

\* the entries of a word list that a query contains, whatever its case
WordsIn(words, query) ==
    {words[i] : i \in {j \in 1..Len(words) : Contains(words[j], Lower(query))}}

TopicsIn == Table([q \in GateQueries |-> WordsIn(handoff_required_topics, q)])
PatternsIn == Table([q \in GateQueries |-> WordsIn(patient_patterns, q)])

\* the patient patterns that are topic keywords as well
SharedPatterns == {"my scan", "my diagnosis", "my treatment"}

Decided == lookup.pc = "decided"

\* the retrieval gets past checks 1 and 2 of the gate
PassesChecks1And2 ==
    /\ Len(lookup.retrieval_result.chunks) > 0
    /\ lookup.retrieval_result.max_score >= handoff_similarity_threshold

\* C30: "my scan", "my diagnosis" and "my treatment" are topic keywords
\* as well as patient patterns, so a query that contains one of them and
\* whose retrieval passes checks 1 and 2 is handed off by check 3, with a
\* reason that names a topic keyword the query contains, never with the
\* patient-specific reason.  The patient-specific reason is given only to
\* a query that contains one of the other patterns and no topic keyword,
\* and such a query, past checks 1 and 2, always gets it.
C30_SharedPatternsAreHandedOffAsTopics ==
    /\ \A p \in SharedPatterns :
          /\ \E i \in 1..Len(handoff_required_topics) : handoff_required_topics[i] = p
          /\ \E i \in 1..Len(patient_patterns) : patient_patterns[i] = p
    /\ (Decided /\ PassesChecks1And2) =>
          LET decision == lookup.gate_decision
              topics == TopicsIn[lookup.query]
              patterns == PatternsIn[lookup.query]
          IN  /\ patterns \cap SharedPatterns # {}
                    => /\ decision.should_handoff
                       /\ \E t \in topics : decision.reason = TopicReason(t)
                       /\ decision.reason # PatientSpecificReason
              /\ decision.reason = PatientSpecificReason
                    => /\ patterns # {}
                       /\ patterns \cap SharedPatterns = {}
                       /\ topics = {}
              /\ (patterns # {} /\ topics = {})
                    => decision = GateDecision(TRUE, PatientSpecificReason)
    /\ (Decided /\ ~PassesChecks1And2)
          => lookup.gate_decision.reason # PatientSpecificReason

C30_Witness ==
    /\ Decided /\ PassesChecks1And2
    /\ lookup.query = "My Treatment plan"
    /\ lookup.retrieval_result.max_score = handoff_similarity_threshold
    /\ lookup.gate_decision
          = GateDecision(TRUE, "Query requires live support: contains 'my treatment'")

----------------------------------------------------------------------------
(* Properties of the singleton (BotSpec) *)

\* what is_healthy is to report on, said of the instance apart from the code
ModelInitialized(b) == b.model \notin {"absent", "None"}
IndexBuilt(b) == b.vector_store # "absent" /\ b.index # "None"
Ready(b) == ModelInitialized(b) /\ IndexBuilt(b) /\ b.ntotal >= 1

C25_StartupStateIsReadOnly ==
    /\ [][bot._initialized =>
            /\ bot' = bot
            /\ rest' = rest
            /\ (probe'.call = "get_chatbot" /\ probe'.at._initialized)
                  => probe'.result = "instance"
            /\ (cache' # cache \/ hits' # hits \/ misses' # misses)
                  => (probe'.call = "chat" /\ probe'.at = bot)]_vars
    /\ [](bot._instance => bot.instances = 1)

C25_Witness ==
    /\ bot._initialized
    /\ bot.ntotal = 2 /\ bot.chunks = 2
    /\ bot.llm_loads = 1 /\ bot.index_builds = 1 /\ bot.embed_loads = 1
    /\ probe.call = "chat" /\ probe.result = "returned"
    /\ hits = 1 /\ misses = 1
    /\ Len(cache) = 1

====
